---- MODULE Spec2Model ----
(***************************************************************************)
(* Model of the audiobook-maker document-to-speech pipeline:               *)
(*   - the chunk planner (split_text_into_chunks, _strip_parenthetical,    *)
(*     _plan_chunks) and the chapter indexing of parse_epub / parse_txt,   *)
(*   - the job record, the HTTP handlers that touch it, the run_generation *)
(*     worker threads and the cleanup loop.                                *)
(*                                                                         *)
(* Text is a sequence of tokens.  A token is one character, written as a   *)
(* one-character string, except "W", which stands for an unbreakable run   *)
(* of LongRun ordinary letters.  The planner only looks at newlines,       *)
(* whitespace, the sentence delimiters, brackets and lengths, so a run of  *)
(* letters behaves exactly like one token of that length.                  *)
(***************************************************************************)
EXTENDS Integers, Sequences, FiniteSets, Bags, TLC

\* ------------------------------------------------------------------------
\* Bounds of the model
\* ------------------------------------------------------------------------
MaxTextLen == 4      \* tokens in an input text of the planner specification
MaxBudget == 3       \* largest max_chars tried in the planner specification
LongRun == 1200      \* letters in one "W" token
MaxSpine == 2        \* fragments in the spine of an uploaded EPUB
MaxWorkers == 2      \* run_generation threads that can be started for the job
MaxTicks == 1        \* advances of the clock
MaxRepeat == 5       \* copies of one line in a text given to is_content_chapter
MaxParts == 3        \* parts handed to _concatenate_mp3, and files they are taken from
MaxFragments == 2    \* fragments the entries of a TOC point into
MaxTocItems == 2        \* top-level items of a TOC
MaxLineTokens == 3      \* tokens of a line of the text to clean

\* ------------------------------------------------------------------------
\* Program constants
\* ------------------------------------------------------------------------
CHUNK_MAX_CHARS == 2000
max_retries == 3
HEARTBEAT_TIMEOUT_SEC == 60
CLEANUP_AFTER_DOWNLOAD_SEC == 3600
CLEANUP_AFTER_ABANDON_SEC == 3600
STALE_ANALYZED_SEC == 300
EMAIL_FILE_RETENTION_SEC == 86400

\* ------------------------------------------------------------------------
\* Text helpers (Python str operations used by the planner)
\* ------------------------------------------------------------------------
\* str.isspace for the characters of the model
IsWs(t) == t \in {" ", "\n"}

\* len(): "W" counts LongRun characters, every other token one
RECURSIVE LenC(_)
LenC(s) == IF s = <<>> THEN 0
           ELSE (IF Head(s) = "W" THEN LongRun ELSE 1) + LenC(Tail(s))

RECURSIVE LStrip(_)
LStrip(s) == IF s # <<>> /\ IsWs(Head(s)) THEN LStrip(Tail(s)) ELSE s

RECURSIVE RStrip(_)
RStrip(s) == IF s # <<>> /\ IsWs(s[Len(s)]) THEN RStrip(SubSeq(s, 1, Len(s) - 1)) ELSE s

\* str.strip()
Strip(s) == RStrip(LStrip(s))

\* sep in s, for a separator of one or two tokens
Contains(s, sep) ==
    \E i \in 1..(Len(s) - Len(sep) + 1) : SubSeq(s, i, i + Len(sep) - 1) = sep

\* str.split(sep): non-overlapping occurrences, left to right
RECURSIVE SplitAcc(_, _, _, _)
SplitAcc(s, sep, cur, acc) ==
    IF s = <<>> THEN Append(acc, cur)
    ELSE IF Len(s) >= Len(sep) /\ SubSeq(s, 1, Len(sep)) = sep
         THEN SplitAcc(SubSeq(s, Len(sep) + 1, Len(s)), sep, <<>>, Append(acc, cur))
         ELSE SplitAcc(Tail(s), sep, Append(cur, Head(s)), acc)

Split(s, sep) == SplitAcc(s, sep, <<>>, <<>>)

RECURSIVE Flatten(_)
Flatten(ss) == IF ss = <<>> THEN <<>> ELSE Head(ss) \o Flatten(Tail(ss))

\* the text with every whitespace token removed
NoWs(s) == SelectSeq(s, LAMBDA t : ~IsWs(t))

\* ------------------------------------------------------------------------
\* split_text_into_chunks
\* ------------------------------------------------------------------------
\* the sentence delimiters, in the order the code tries them
Separators == << <<".", " ">>, <<"!", " ">>, <<"?", " ">>, <<";", " ">> >>

\* [p + sep.strip() for p in parts[:-1]] + [parts[-1]]
SentencesBy(para, sep) ==
    LET parts == Split(para, sep)
    IN  [k \in 1..Len(parts) |->
            IF k < Len(parts) THEN Append(parts[k], sep[1]) ELSE parts[k]]

\* the sentences of an over-budget paragraph: split on the first delimiter
\* present, the whole paragraph when none is
Sentences(para) ==
    IF \E k \in 1..Len(Separators) : Contains(para, Separators[k])
    THEN LET k == CHOOSE j \in 1..Len(Separators) :
                     /\ Contains(para, Separators[j])
                     /\ \A h \in 1..(j - 1) : ~Contains(para, Separators[h])
         IN  SentencesBy(para, Separators[k])
    ELSE <<para>>

\* the loop over the sentences: st = [chunks, temp]
RECURSIVE SentenceLoop(_, _, _, _)
SentenceLoop(sents, k, st, max_chars) ==
    IF k > Len(sents) THEN st
    ELSE LET s == sents[k]
         IN  IF LenC(st.temp) + LenC(s) + 1 > max_chars
             THEN SentenceLoop(sents, k + 1,
                     [chunks |-> IF Strip(st.temp) # <<>>
                                 THEN Append(st.chunks, Strip(st.temp))
                                 ELSE st.chunks,
                      temp |-> s], max_chars)
             ELSE SentenceLoop(sents, k + 1,
                     [chunks |-> st.chunks,
                      temp |-> IF st.temp # <<>> THEN st.temp \o <<" ">> \o s ELSE s],
                     max_chars)

\* ParagraphStep with the budget test looking at the paragraph alone, not at
\* the buffer it is appended to
ParagraphStep_IgnoresBuffer(st, rawPara, max_chars) ==
    LET para == Strip(rawPara)
        flushed == IF Strip(st.current) # <<>>
                   THEN Append(st.chunks, Strip(st.current))
                   ELSE st.chunks
    IN  IF para = <<>>
        THEN [chunks |-> st.chunks,
              current |-> IF st.current # <<>> THEN Append(st.current, "\n")
                          ELSE st.current]
        ELSE IF LenC(para) > max_chars
        THEN LET r == SentenceLoop(Sentences(para), 1,
                                   [chunks |-> flushed, temp |-> <<>>], max_chars)
             IN  [chunks |-> r.chunks, current |-> r.temp]
        ELSE [chunks |-> st.chunks,
              current |-> IF st.current # <<>> THEN st.current \o <<" ">> \o para
                          ELSE para]

\* one iteration of the loop over the paragraphs: st = [chunks, current]
ParagraphStep(st, rawPara, max_chars) ==
    LET para == Strip(rawPara)
        flushed == IF Strip(st.current) # <<>>
                   THEN Append(st.chunks, Strip(st.current))
                   ELSE st.chunks
    IN  IF para = <<>>
        THEN [chunks |-> st.chunks,
              current |-> IF st.current # <<>> THEN Append(st.current, "\n")
                          ELSE st.current]
        ELSE IF LenC(st.current) + LenC(para) + 1 > max_chars
        THEN IF LenC(para) > max_chars
             THEN LET r == SentenceLoop(Sentences(para), 1,
                                        [chunks |-> flushed, temp |-> <<>>], max_chars)
                  IN  [chunks |-> r.chunks, current |-> r.temp]
             ELSE [chunks |-> flushed, current |-> para]
        ELSE [chunks |-> st.chunks,
              current |-> IF st.current # <<>> THEN st.current \o <<" ">> \o para
                          ELSE para]

RECURSIVE ParagraphLoop(_, _, _, _)
ParagraphLoop(paras, k, st, max_chars) ==
    IF k > Len(paras) THEN st
    ELSE ParagraphLoop(paras, k + 1, ParagraphStep(st, paras[k], max_chars), max_chars)

\* split_text_into_chunks returning the chunk list as it is, without the
\* "[text]" fallback for an empty list
split_text_into_chunks_NoFallback(text, max_chars) ==
    LET st == ParagraphLoop(Split(text, <<"\n">>), 1,
                            [chunks |-> <<>>, current |-> <<>>], max_chars)
    IN  IF Strip(st.current) # <<>>
        THEN Append(st.chunks, Strip(st.current))
        ELSE st.chunks

\* split_text_into_chunks without the flush of the buffer after the loop
split_text_into_chunks_NoLastFlush(text, max_chars) ==
    LET st == ParagraphLoop(Split(text, <<"\n">>), 1,
                            [chunks |-> <<>>, current |-> <<>>], max_chars)
    IN  IF st.chunks # <<>> THEN st.chunks ELSE <<text>>

split_text_into_chunks(text, max_chars) ==
    LET st == ParagraphLoop(Split(text, <<"\n">>), 1,
                            [chunks |-> <<>>, current |-> <<>>], max_chars)
        chunks == IF Strip(st.current) # <<>>
                  THEN Append(st.chunks, Strip(st.current))
                  ELSE st.chunks
    IN  IF chunks # <<>> THEN chunks ELSE <<text>>

\* ------------------------------------------------------------------------
\* _strip_parenthetical
\* ------------------------------------------------------------------------
\* index of the first token of s after position 1 that is the opening or
\* the closing bracket, 0 when there is none
FirstBracket(s, o, c) ==
    IF \E j \in 2..Len(s) : s[j] \in {o, c}
    THEN CHOOSE j \in 2..Len(s) :
            /\ s[j] \in {o, c}
            /\ \A h \in 2..(j - 1) : s[h] \notin {o, c}
    ELSE 0

\* re.sub(r'\([^()]*\)', '', text): one left-to-right pass that deletes every
\* innermost bracketed span
RECURSIVE RemoveSpans(_, _, _)
RemoveSpans(s, o, c) ==
    IF s = <<>> THEN <<>>
    ELSE IF Head(s) = o /\ FirstBracket(s, o, c) # 0 /\ s[FirstBracket(s, o, c)] = c
         THEN RemoveSpans(SubSeq(s, FirstBracket(s, o, c) + 1, Len(s)), o, c)
         ELSE <<Head(s)>> \o RemoveSpans(Tail(s), o, c)

\* while prev != text: remove round spans, then square spans
RECURSIVE RemoveBrackets(_)
RemoveBrackets(s) ==
    LET t == RemoveSpans(RemoveSpans(s, "(", ")"), "[", "]")
    IN  IF t = s THEN s ELSE RemoveBrackets(t)

\* re.sub(r'\s+', ' ', text)
RECURSIVE CollapseWs(_)
CollapseWs(s) ==
    IF s = <<>> THEN <<>>
    ELSE IF IsWs(Head(s))
         THEN <<" ">> \o CollapseWs(LStrip(s))
         ELSE <<Head(s)>> \o CollapseWs(Tail(s))

Punctuation == {",", ";", ":", ".", "!", "?"}

\* re.sub(r'\s+([,;:.!?])', r'\1', text)
RECURSIVE FixOrphanPunct(_)
FixOrphanPunct(s) ==
    IF s = <<>> THEN <<>>
    ELSE IF IsWs(Head(s)) /\ LStrip(s) # <<>> /\ Head(LStrip(s)) \in Punctuation
         THEN FixOrphanPunct(LStrip(s))
         ELSE <<Head(s)>> \o FixOrphanPunct(Tail(s))

_strip_parenthetical(text) == Strip(FixOrphanPunct(CollapseWs(RemoveBrackets(text))))

\* ------------------------------------------------------------------------
\* Chapter, BookInfo and the parsers
\* ------------------------------------------------------------------------
\* len(text.split()): the number of maximal runs of non-whitespace tokens
RECURSIVE WordCount(_)
WordCount(s) ==
    IF s = <<>> THEN 0
    ELSE IF IsWs(Head(s)) THEN WordCount(Tail(s))
    ELSE IF Len(s) = 1 \/ IsWs(s[2]) THEN 1 + WordCount(Tail(s))
    ELSE WordCount(Tail(s))

\* Chapter.__post_init__ / _SimpleChapter.__init__
Chapter(index, title, text) ==
    [index |-> index, title |-> title, text |-> text,
     word_count |-> WordCount(text), char_count |-> LenC(text)]

RECURSIVE SumWords(_)
SumWords(chs) == IF chs = <<>> THEN 0 ELSE Head(chs).word_count + SumWords(Tail(chs))

RECURSIVE SumChars(_)
SumChars(chs) == IF chs = <<>> THEN 0 ELSE Head(chs).char_count + SumChars(Tail(chs))

\* the title parse_txt derives from the file name
TxtTitle == <<"T">>

\* parse_txt + _SimpleBookInfo: one chapter, index 1, holding the stripped
\* text (the caller gets ValueError for an empty file, see TxtParses)
parse_txt(raw) ==
    LET ch == Chapter(1, TxtTitle, Strip(raw))
    IN  [title |-> TxtTitle, chapters |-> <<ch>>,
         total_words |-> ch.word_count, total_chars |-> ch.char_count]

TxtParses(raw) == Strip(raw) # <<>>

\* the chapter loop of parse_epub.  An item of the spine is
\*   [skip: the file-name / epub:type filters reject the fragment,
\*    sections: the (title, text, content) sections of the fragment: two or
\*              more for a fragment split by headings, one for a fragment
\*              handled as a single chapter; content is the verdict of
\*              is_content_chapter on the section]
\* st = [chapter_index, chapters]
\* SectionLoop with chapter_index advanced for a rejected section as well
RECURSIVE SectionLoop_CountsRejected(_, _, _)
SectionLoop_CountsRejected(secs, k, st) ==
    IF k > Len(secs) THEN st
    ELSE IF ~secs[k].content
    THEN SectionLoop_CountsRejected(secs, k + 1,
            [chapter_index |-> st.chapter_index + 1, chapters |-> st.chapters])
    ELSE SectionLoop_CountsRejected(secs, k + 1,
            [chapter_index |-> st.chapter_index + 1,
             chapters |-> Append(st.chapters,
                 Chapter(st.chapter_index + 1, secs[k].title, Strip(secs[k].text)))])

RECURSIVE SectionLoop(_, _, _)
SectionLoop(secs, k, st) ==
    IF k > Len(secs) THEN st
    ELSE IF ~secs[k].content THEN SectionLoop(secs, k + 1, st)
    ELSE SectionLoop(secs, k + 1,
            [chapter_index |-> st.chapter_index + 1,
             chapters |-> Append(st.chapters,
                 Chapter(st.chapter_index + 1, secs[k].title, Strip(secs[k].text)))])

RECURSIVE SpineLoop(_, _, _)
SpineLoop(spine, k, st) ==
    IF k > Len(spine) THEN st
    ELSE IF spine[k].skip THEN SpineLoop(spine, k + 1, st)
    ELSE SpineLoop(spine, k + 1, SectionLoop(spine[k].sections, 1, st))

EpubTitle == <<"E">>

parse_epub(spine) ==
    LET st == SpineLoop(spine, 1, [chapter_index |-> 0, chapters |-> <<>>])
    IN  [title |-> EpubTitle, chapters |-> st.chapters,
         total_words |-> SumWords(st.chapters),
         total_chars |-> SumChars(st.chapters)]

\* api_generate: the copy of info restricted to the selected chapters
\* (total_chars is not recomputed by the code)
FilterChapters(info, selected_set) ==
    LET filtered == SelectSeq(info.chapters, LAMBDA ch : ch.index \in selected_set)
    IN  [title |-> info.title, chapters |-> filtered,
         total_words |-> SumWords(filtered),
         total_chars |-> info.total_chars]

\* ------------------------------------------------------------------------
\* _plan_chunks
\* ------------------------------------------------------------------------
\* FullText with the title and the text on one line
FullText_OneLine(ch) == ch.title \o <<".", " ">> \o _strip_parenthetical(ch.text)

\* f"{ch.title}.\n\n{clean_text}"
FullText(ch) == ch.title \o <<".", "\n", "\n">> \o _strip_parenthetical(ch.text)

\* ChapterEntries with enumerate starting at 1
ChapterEntries_FromOne(ch) ==
    LET chunks == split_text_into_chunks(FullText(ch), CHUNK_MAX_CHARS)
    IN  [ci \in 1..Len(chunks) |->
            [chapter_index |-> ch.index, chapter_title |-> ch.title,
             chunk_index |-> ci, chunks_in_chapter |-> Len(chunks),
             text |-> chunks[ci], chars |-> LenC(chunks[ci])]]

\* for ci, chunk in enumerate(chunks): one plan entry per chunk
ChapterEntries(ch) ==
    LET chunks == split_text_into_chunks(FullText(ch), CHUNK_MAX_CHARS)
    IN  [ci \in 1..Len(chunks) |->
            [chapter_index |-> ch.index, chapter_title |-> ch.title,
             chunk_index |-> ci - 1, chunks_in_chapter |-> Len(chunks),
             text |-> chunks[ci], chars |-> LenC(chunks[ci])]]

RECURSIVE PlanLoop(_, _)
PlanLoop(chs, plan) ==
    IF chs = <<>> THEN plan
    ELSE PlanLoop(Tail(chs), plan \o ChapterEntries(Head(chs)))

_plan_chunks(info) == PlanLoop(info.chapters, <<>>)

\* ========================================================================
\* Planner specification: the parsers and the planner applied to bounded
\* inputs
\* ========================================================================
VARIABLES doc, pstep, chunks, book, plan

pvars == <<doc, pstep, chunks, book, plan>>

\* texts of at most n tokens over an alphabet
RECURSIVE TextsUpTo(_, _)
TextsUpTo(alphabet, n) ==
    IF n = 0 THEN {<<>>}
    ELSE LET shorter == TextsUpTo(alphabet, n - 1)
         IN  shorter \cup {Append(t, a) : t \in shorter, a \in alphabet}

\* inputs of split_text_into_chunks with a small budget
SplitAlphabet == {"a", ".", " ", "\n", ";"}
\* chapter texts planned with the default budget
PlanAlphabet == {"W", "a", ".", " ", "(", ")"}

SampleBodies == {<<"a">>, <<"W", ".", " ", "W">>}

SpineItems ==
    {[skip |-> TRUE, sections |-> <<>>]}
    \cup {[skip |-> FALSE,
           sections |-> <<[title |-> <<"A">>, text |-> b, content |-> c]>>] :
              b \in SampleBodies, c \in BOOLEAN}
    \cup {[skip |-> FALSE,
           sections |-> <<[title |-> <<"A">>, text |-> <<"a">>, content |-> c1],
                          [title |-> <<"B">>, text |-> <<"W", " ", "(", "a", ")">>,
                           content |-> c2]>>] :
              c1 \in BOOLEAN, c2 \in BOOLEAN}

RECURSIVE SpinesUpTo(_)
SpinesUpTo(n) ==
    IF n = 0 THEN {<<>>}
    ELSE LET shorter == SpinesUpTo(n - 1)
         IN  shorter \cup {Append(sp, it) : sp \in shorter, it \in SpineItems}

TxtDoc(text, budget) == [kind |-> "txt", text |-> text, budget |-> budget, spine |-> <<>>]
EpubDoc(spine) == [kind |-> "epub", text |-> <<>>, budget |-> CHUNK_MAX_CHARS, spine |-> spine]
NoDoc == [kind |-> "none", text |-> <<>>, budget |-> CHUNK_MAX_CHARS, spine |-> <<>>]

\* chapter bodies of about 3000 characters: sentences, one run of words
\* without a sentence end, and a body a good part of which is bracketed
LongBodies ==
    { <<"W", ".", " ", "W", ".", " ", "a", ".">>,
      <<"W", " ", "W", " ", "a">>,
      <<"W", " ", "(", "W", ")", " ", "a", ".">> }

\* books of three chapters A, B, C, each of about 3000 characters
ThreeChapterBooks ==
    { EpubDoc(<< [skip |-> FALSE,
                  sections |-> <<[title |-> <<"A">>, text |-> b1, content |-> TRUE]>>],
                 [skip |-> FALSE,
                  sections |-> <<[title |-> <<"B">>, text |-> b2, content |-> TRUE]>>],
                 [skip |-> FALSE,
                  sections |-> <<[title |-> <<"C">>, text |-> b3, content |-> TRUE]>>] >>) :
        b1 \in LongBodies, b2 \in LongBodies, b3 \in LongBodies }

NoBook == [title |-> <<>>, chapters |-> <<>>, total_words |-> 0, total_chars |-> 0]

PlannerIdle ==
    /\ doc = NoDoc
    /\ pstep = "input"
    /\ chunks = <<>>
    /\ book = NoBook
    /\ plan = <<>>

PlannerInit ==
    /\ doc \in {TxtDoc(t, b) : t \in TextsUpTo(SplitAlphabet, MaxTextLen), b \in 1..MaxBudget}
               \cup {TxtDoc(t, CHUNK_MAX_CHARS) : t \in TextsUpTo(PlanAlphabet, MaxTextLen)}
               \cup {EpubDoc(sp) : sp \in SpinesUpTo(MaxSpine)}
               \cup ThreeChapterBooks
    /\ pstep = "input"
    /\ chunks = <<>>
    /\ book = NoBook
    /\ plan = <<>>

\* split_text_into_chunks(text, max_chars) on the input text
SplitText ==
    /\ doc.kind = "txt"
    /\ pstep = "input"
    /\ chunks' = split_text_into_chunks(doc.text, doc.budget)
    /\ pstep' = "split"
    /\ UNCHANGED <<doc, book, plan>>

\* api_analyze on a .txt upload: parse error for an empty file
AnalyzeTxt ==
    /\ doc.kind = "txt"
    /\ pstep = "split"
    /\ IF TxtParses(doc.text)
       THEN book' = parse_txt(doc.text) /\ pstep' = "parsed"
       ELSE book' = book /\ pstep' = "rejected"
    /\ UNCHANGED <<doc, chunks, plan>>

\* api_analyze on an .epub upload: "No content found." without chapters
AnalyzeEpub ==
    /\ doc.kind = "epub"
    /\ pstep = "input"
    /\ LET info == parse_epub(doc.spine)
       IN  IF info.chapters # <<>>
           THEN book' = info /\ pstep' = "parsed"
           ELSE book' = book /\ pstep' = "rejected"
    /\ UNCHANGED <<doc, chunks, plan>>

ChapterIndices(info) == {info.chapters[k].index : k \in 1..Len(info.chapters)}

\* api_generate with selected_chapters in per-chapter mode
SelectChapters ==
    /\ pstep = "parsed"
    /\ \E selected_set \in SUBSET (1..(Len(book.chapters) + 1)) :
          /\ selected_set # {}
          /\ FilterChapters(book, selected_set).chapters # <<>>
          /\ book' = FilterChapters(book, selected_set)
    /\ pstep' = "filtered"
    /\ UNCHANGED <<doc, chunks, plan>>

\* _plan_chunks(info) at the start of run_generation
PlanChunks ==
    /\ pstep \in {"parsed", "filtered"}
    /\ plan' = _plan_chunks(book)
    /\ pstep' = "planned"
    /\ UNCHANGED <<doc, chunks, book>>

\* ========================================================================
\* Job specification: one uploaded document, its job record, the handlers,
\* the run_generation threads started for it and the cleanup loop
\* ========================================================================
VARIABLES
    inJobs,      \* job_id in jobs
    job,         \* the job dict (a thread keeps its reference after a pop)
    now,         \* time.time()
    ticks,       \* number of clock advances so far
    dirExists,   \* UPLOAD_DIR / job_id exists (with its output directory)
    files,       \* the files below the working directory
    workers,     \* the run_generation threads started so far: a bag of
                 \* thread states (position and locals); threads carry no name
    to_remove,   \* the job is in the to_remove list of a running cleanup pass
    hist         \* history: responses given and completion emails sent so far

jvars == <<inJobs, job, now, ticks, dirExists, files, workers, to_remove, hist>>

\* a call of one function on its own, and what it returned and did
VARIABLES
    call,        \* the function called and its arguments
    ret          \* the value returned and the effects of the call

fvars == <<call, ret>>

vars == <<pvars, jvars, fvars>>

\* files of the working directory
SilenceFile == <<"silence", 0>>
FinalFile == <<"final", 0>>
ZipFile == <<"zip", 0>>
UploadFile == <<"upload", 0>>
ChunkFile(i) == <<"chunk", i>>
ChapterFile(idx) == <<"chapter", idx>>

\* the steps by which the clock advances: past every timeout of the job
TickSteps == {CLEANUP_AFTER_ABANDON_SEC + 1}

\* the documents a client uploads in the job specification
\*   - an EPUB of two chapters, each planned as one chunk
\*   - a text file planned as three chunks: the title, a sentence over the
\*     budget and a lone zero-width character "z"
Uploads ==
    { EpubDoc(<< [skip |-> FALSE,
                  sections |-> <<[title |-> <<"A">>, text |-> <<"a">>, content |-> TRUE],
                                 [title |-> <<"B">>, text |-> <<"b">>,
                                  content |-> TRUE]>>] >>),
      TxtDoc(<<"W", " ", "W", ".", " ", "z">>, CHUNK_MAX_CHARS),
      \* a text file of white space only: parse_txt raises ValueError
      TxtDoc(<<" ", "\n">>, CHUNK_MAX_CHARS),
      \* an EPUB none of whose fragments is kept: parse_epub yields no chapter
      EpubDoc(<< [skip |-> TRUE,
                  sections |-> <<[title |-> <<"A">>, text |-> <<"a">>,
                                  content |-> TRUE]>>],
                 [skip |-> FALSE,
                  sections |-> <<[title |-> <<"B">>, text |-> <<"b">>,
                                  content |-> FALSE]>>] >>) }

\* the selected_chapters a client sends: none, or the second chapter
Selections == {{}, {2}}

NoJob ==
    [status |-> "none", cancelled |-> FALSE, last_poll |-> 0,
     email_registered |-> FALSE,
     progress_current |-> 0, progress_total |-> 0,
     processed_chars |-> 0, total_chars |-> 0,
     failed_chunks |-> -1, output_files |-> <<>>, output_zip |-> FALSE,
     podcast_ready |-> FALSE, error |-> FALSE,
     start_time |-> -1, completed_at |-> -1, downloaded_at |-> -1,
     email_sent_at |-> -1]

\* a thread as threading.Thread(target=run_generation, ...).start() leaves it
NewWorker(single_file, info) ==
    [pc |-> "begin", single_file |-> single_file, info |-> info, plan |-> <<>>,
     i |-> 0, parts |-> <<>>, chapter_idx |-> -1, failed_chunks |-> 0,
     mp3_files |-> <<>>, start_time |-> -1, calls |-> <<>>, concats |-> <<>>]

\* a thread that has ended keeps no locals: only how it ended
\*   done, cancelled, error: the three exits of the try block
\*   faulted: the error exit, taken after a fault of the environment
\*   crashed: an exception outside the try block
\*   missing: KeyError on jobs[job_id]
Ended(how) == [NewWorker(TRUE, NoBook) EXCEPT !.pc = how]

EndStates == {"done", "cancelled", "error", "faulted", "crashed", "missing"}

NoHistory == [cancel_accepted |-> FALSE, analyze_code |-> 0, emails |-> 0]

JobIdle ==
    /\ inJobs = FALSE
    /\ job = NoJob
    /\ now = 1
    /\ ticks = 0
    /\ dirExists = FALSE
    /\ files = {}
    /\ workers = EmptyBag
    /\ to_remove = FALSE
    /\ hist = NoHistory

Threads == BagToSet(workers)

\* the thread in state me moves to state rec
SetWorker(me, rec) == workers' = (workers (-) SetToBag({me})) (+) SetToBag({rec})

\* ------------------------------------------------------------------------
\* HTTP handlers
\* ------------------------------------------------------------------------
Parses(d) == IF d.kind = "txt" THEN TxtParses(d.text)
             ELSE parse_epub(d.spine).chapters # <<>>

Parse(d) == IF d.kind = "txt" THEN parse_txt(d.text) ELSE parse_epub(d.spine)

\* api_analyze creating the job record whatever the parser returned
api_analyze_NoReject(d) ==
    /\ doc = NoDoc
    /\ doc' = d
    /\ dirExists' = TRUE
    /\ files' = {UploadFile}
    /\ book' = Parse(d)
    /\ inJobs' = TRUE
    /\ job' = [NoJob EXCEPT !.status = "analyzed", !.last_poll = now]
    /\ hist' = [hist EXCEPT !.analyze_code = 200]
    /\ UNCHANGED <<pstep, chunks, plan, now, ticks, workers, to_remove>>

\* api_analyze: the upload is saved, parsed, and on success the job record
\* is created with status analyzed; a parser exception or an empty chapter
\* list is answered with 400 before the record is created
api_analyze(d) ==
    /\ doc = NoDoc
    /\ doc' = d
    /\ dirExists' = TRUE
    /\ files' = {UploadFile}
    /\ IF Parses(d)
       THEN /\ book' = Parse(d)
            /\ inJobs' = TRUE
            /\ job' = [NoJob EXCEPT !.status = "analyzed", !.last_poll = now]
            /\ hist' = [hist EXCEPT !.analyze_code = 200]
       ELSE /\ hist' = [hist EXCEPT !.analyze_code = 400]
            /\ UNCHANGED <<book, inJobs, job>>
    /\ UNCHANGED <<pstep, chunks, plan, now, ticks, workers, to_remove>>

\* the info handed to the thread by api_generate
GenerateInfo(single_file, selected_chapters) ==
    IF selected_chapters # {} /\ ~single_file
    THEN FilterChapters(book, selected_chapters)
    ELSE book

\* api_generate filtering the stored info in place instead of a copy
api_generate_InPlace(single_file, selected_chapters) ==
    /\ inJobs
    /\ job.status = "analyzed"
    /\ BagCardinality(workers) < MaxWorkers
    /\ GenerateInfo(single_file, selected_chapters).chapters # <<>>
    /\ book' = GenerateInfo(single_file, selected_chapters)
    /\ workers' = workers (+)
          SetToBag({NewWorker(single_file, GenerateInfo(single_file, selected_chapters))})
    /\ UNCHANGED <<doc, pstep, chunks, plan, inJobs, job, now, ticks, dirExists, files,
                   to_remove, hist>>

\* the error message of api_generate, "" when the request is accepted
GenerateError(single_file, selected_chapters) ==
    IF ~inJobs THEN "Session expired. Re-upload file."
    ELSE IF job.status # "analyzed" THEN "Generation already running or completed."
    ELSE IF GenerateInfo(single_file, selected_chapters).chapters = <<>>
    THEN "No chapters selected."
    ELSE ""

\* a rejection that clears the cancel flag of the record
api_generate_RejectedResets(single_file, selected_chapters) ==
    /\ GenerateError(single_file, selected_chapters) # ""
    /\ job' = [job EXCEPT !.cancelled = FALSE]
    /\ UNCHANGED <<pvars, inJobs, now, ticks, dirExists, files, workers, to_remove, hist>>

\* api_generate answering 400: nothing is started, nothing is written (in
\* Spec, where the response is not recorded, this is a stuttering step)
api_generate_Rejected(single_file, selected_chapters) ==
    /\ GenerateError(single_file, selected_chapters) # ""
    /\ UNCHANGED <<pvars, jvars>>

\* api_generate: checks the status and starts a run_generation thread; the
\* status itself is only changed by the thread
api_generate(single_file, selected_chapters) ==
    /\ inJobs
    /\ job.status = "analyzed"
    /\ BagCardinality(workers) < MaxWorkers
    /\ GenerateInfo(single_file, selected_chapters).chapters # <<>>
    /\ workers' = workers (+)
          SetToBag({NewWorker(single_file, GenerateInfo(single_file, selected_chapters))})
    /\ UNCHANGED <<pvars, inJobs, job, now, ticks, dirExists, files, to_remove, hist>>

\* api_cancel: ignored for a job with an email registered unless forced
api_cancel(force) ==
    /\ inJobs
    /\ ~(job.email_registered /\ ~force)
    /\ job' = [job EXCEPT !.cancelled = TRUE]
    /\ hist' = [hist EXCEPT !.cancel_accepted = @ \/ job.status = "generating"]
    /\ UNCHANGED <<pvars, inJobs, now, ticks, dirExists, files, workers, to_remove>>

\* api_heartbeat, and every round of the api_progress stream
api_heartbeat ==
    /\ inJobs
    /\ job' = [job EXCEPT !.last_poll = now]
    /\ UNCHANGED <<pvars, inJobs, now, ticks, dirExists, files, workers, to_remove, hist>>

\* api_register_email with a valid address and SMTP configured
api_register_email ==
    /\ inJobs
    /\ job' = [job EXCEPT !.email_registered = TRUE]
    /\ UNCHANGED <<pvars, inJobs, now, ticks, dirExists, files, workers, to_remove, hist>>

\* time passes
Tick(d) ==
    /\ ticks < MaxTicks
    /\ now' = now + d
    /\ ticks' = ticks + 1
    /\ UNCHANGED <<pvars, inJobs, job, dirExists, files, workers, to_remove, hist>>

\* ------------------------------------------------------------------------
\* The cleanup loop
\* ------------------------------------------------------------------------
\* the verdict of one pass of _cleanup_loop on the job
ShouldRemove ==
    IF job.status = "cancelled" THEN TRUE
    ELSE IF job.email_registered /\ job.status \in {"generating", "analyzed"} THEN FALSE
    ELSE IF job.status = "done" THEN
        IF job.email_registered /\ job.email_sent_at # -1
        THEN now - job.email_sent_at > EMAIL_FILE_RETENTION_SEC
        ELSE IF job.email_registered THEN FALSE
        ELSE IF job.completed_at # -1 /\ now - job.completed_at < CLEANUP_AFTER_ABANDON_SEC
        THEN FALSE
        ELSE IF job.downloaded_at # -1
                /\ now - job.downloaded_at > CLEANUP_AFTER_DOWNLOAD_SEC THEN TRUE
        ELSE job.downloaded_at = -1 /\ now - job.last_poll > CLEANUP_AFTER_ABANDON_SEC
    ELSE IF job.status = "error" THEN
        now - (IF job.start_time # -1 THEN job.start_time ELSE now)
            > CLEANUP_AFTER_ABANDON_SEC
    ELSE IF job.status = "analyzed" THEN now - job.last_poll > STALE_ANALYZED_SEC
    ELSE FALSE

\* the first half of a pass: the loop over list(jobs.items())
CleanupScan ==
    /\ ~to_remove
    /\ inJobs
    /\ ShouldRemove
    /\ to_remove' = TRUE
    /\ UNCHANGED <<pvars, inJobs, job, now, ticks, dirExists, files, workers, hist>>

\* the second half: _cleanup_job for the listed job
CleanupRemove ==
    /\ to_remove
    /\ to_remove' = FALSE
    /\ dirExists' = FALSE
    /\ files' = {}
    /\ inJobs' = FALSE
    /\ UNCHANGED <<pvars, job, now, ticks, workers, hist>>

\* ------------------------------------------------------------------------
\* generate_chunk_mp3: sanitization
\* ------------------------------------------------------------------------
\* re.sub(r'\n{3,}', '\n\n', .) and re.sub(r' {3,}', ' ', .): a run of three
\* or more t becomes r
RECURSIVE RunLength(_, _)
RunLength(s, t) == IF s # <<>> /\ Head(s) = t THEN 1 + RunLength(Tail(s), t) ELSE 0

RECURSIVE CollapseRuns(_, _, _)
CollapseRuns(s, t, r) ==
    IF s = <<>> THEN <<>>
    ELSE IF RunLength(s, t) >= 3
         THEN r \o CollapseRuns(SubSeq(s, RunLength(s, t) + 1, Len(s)), t, r)
         ELSE <<Head(s)>> \o CollapseRuns(Tail(s), t, r)

\* the text sent to the provider; "z" is a zero-width character, removed
\* with the control characters
Sanitize(text) ==
    CollapseRuns(CollapseRuns(SelectSeq(Strip(text), LAMBDA t : t # "z"),
                              "\n", <<"\n", "\n">>), " ", <<" ">>)

\* the two early returns: nothing to say, a silent placeholder is written
SkipsProvider(text) == Strip(text) = <<>> \/ Strip(Sanitize(text)) = <<>>

\* ------------------------------------------------------------------------
\* run_generation
\* ------------------------------------------------------------------------
RECURSIVE SumPlanChars(_)
SumPlanChars(p) == IF p = <<>> THEN 0 ELSE Head(p).chars + SumPlanChars(Tail(p))

Range(seq) == {seq[k] : k \in 1..Len(seq)}

\* _concatenate_mp3 succeeds (through ffmpeg or the byte-copy fallback) when
\* the output directory and every part exist; otherwise the fallback raises
ConcatOk(parts) == dirExists /\ Range(parts) \subseteq files

\* _check_cancelled
CheckCancelled ==
    IF job.cancelled THEN TRUE
    ELSE IF job.email_registered THEN FALSE
    ELSE now - job.last_poll > HEARTBEAT_TIMEOUT_SEC

\* except Exception: status error, the message recorded.  The thread ends
\* at "faulted" after a fault of the environment, at "error" otherwise
ErrorExit(me, fault) ==
    /\ job' = [job EXCEPT !.status = "error", !.error = TRUE]
    /\ SetWorker(me, Ended(IF fault THEN "faulted" ELSE "error"))

\* job = jobs[job_id]; job["status"] = "generating"
\* (KeyError ends the thread when the record has been removed)
W_Begin(me) ==
    /\ me.pc = "begin"
    /\ IF inJobs
       THEN /\ job' = [job EXCEPT !.status = "generating"]
            /\ SetWorker(me, [me EXCEPT !.pc = "reset"])
       ELSE /\ job' = job
            /\ SetWorker(me, Ended("missing"))
    /\ UNCHANGED <<pvars, inJobs, now, ticks, dirExists, files, to_remove, hist>>

\* job["cancelled"] = False; job["last_poll"] = time.time(); then
\* work_dir.mkdir, output_dir.mkdir, new_event_loop, start_time: all outside
\* the try block, a fault there ends the thread without touching the status
W_Reset(me) ==
    /\ me.pc = "reset"
    /\ job' = [job EXCEPT !.cancelled = FALSE, !.last_poll = now]
    /\ \E fault \in BOOLEAN :
          IF fault
          THEN /\ SetWorker(me, Ended("crashed"))
               /\ UNCHANGED dirExists
          ELSE /\ SetWorker(me, [me EXCEPT !.pc = "prepare", !.start_time = now])
               /\ dirExists' = TRUE
    /\ UNCHANGED <<pvars, inJobs, now, ticks, files, to_remove, hist>>

\* the head of the try block: the plan, the silence file, the progress fields
W_Prepare(me) ==
    /\ me.pc = "prepare"
    /\ \E fault \in BOOLEAN :
          IF fault \/ ~dirExists
          THEN /\ ErrorExit(me, fault)
               /\ UNCHANGED files
          ELSE LET p == _plan_chunks(me.info)
               IN  /\ files' = files \cup {SilenceFile}
                   /\ job' = [job EXCEPT !.progress_current = 0,
                                         !.progress_total = Len(p),
                                         !.total_chars = SumPlanChars(p),
                                         !.processed_chars = 0,
                                         !.start_time = me.start_time]
                   /\ SetWorker(me, [me EXCEPT !.pc = "loop", !.plan = p])
    /\ UNCHANGED <<pvars, inJobs, now, ticks, dirExists, to_remove, hist>>

\* the parts removed after a concatenation (the silence file is kept)
Consumed(parts) == Range(parts) \ {SilenceFile}

\* if os.path.exists(silence_path): parts.append(silence_path)
SilenceIfExists(fs) == IF SilenceFile \in fs THEN <<SilenceFile>> ELSE <<>>

\* One iteration of the loop over the plan: the cancellation check, the
\* progress update, the chapter boundary (in per-chapter mode the previous
\* chapter is concatenated), generate_chunk_mp3 for entry i, the part
\* appended and the counters advanced.  With the directory gone no file can
\* be written: every save fails and the placeholder raises.
W_Iterate(me) ==
    LET block == me.plan[me.i + 1]
        part == ChunkFile(me.i)
        boundary == block.chapter_index # me.chapter_idx
        closes == ~me.single_file /\ boundary /\ me.parts # <<>> /\ me.chapter_idx >= 0
        closed == ChapterFile(me.chapter_idx)
        files1 == IF closes THEN (files \cup {closed}) \ Consumed(me.parts) ELSE files
        parts1 == IF ~boundary THEN me.parts
                  ELSE IF me.single_file THEN me.parts \o SilenceIfExists(files1)
                  ELSE SilenceIfExists(files1)
    IN
    /\ me.pc = "loop"
    /\ me.i < Len(me.plan)
    /\ IF CheckCancelled
       THEN \* raise _CancelledError; the handler removes the directory
            /\ job' = [job EXCEPT !.status = "cancelled"]
            /\ dirExists' = FALSE
            /\ files' = {}
            /\ SetWorker(me, Ended("cancelled"))
       ELSE IF closes /\ ~ConcatOk(me.parts)
       THEN \* the previous chapter cannot be concatenated
            /\ job' = [job EXCEPT !.progress_current = me.i,
                                  !.status = "error", !.error = TRUE]
            /\ files' = IF dirExists THEN files \cup {closed} ELSE files
            /\ SetWorker(me, Ended("error"))
            /\ UNCHANGED dirExists
       ELSE \E outcome \in {"ok", "exhausted", "fault"} :
            IF outcome = "fault" \/ ~dirExists
            THEN /\ job' = [job EXCEPT !.progress_current = me.i,
                                       !.status = "error", !.error = TRUE]
                 /\ files' = files1
                 /\ SetWorker(me, Ended(IF outcome = "fault" THEN "faulted" ELSE "error"))
                 /\ UNCHANGED dirExists
            ELSE /\ job' = [job EXCEPT !.progress_current = me.i,
                                       !.processed_chars = @ + block.chars]
                 /\ files' = files1 \cup {part}
                 /\ SetWorker(me, [me EXCEPT
                       !.i = @ + 1,
                       !.chapter_idx = block.chapter_index,
                       !.parts = Append(parts1, part),
                       !.mp3_files = IF closes THEN Append(@, closed) ELSE @,
                       !.concats = IF closes
                                   THEN Append(@, [out |-> closed, parts |-> me.parts])
                                   ELSE @,
                       !.calls = Append(@, me.i),
                       !.failed_chunks =
                           IF ~SkipsProvider(block.text) /\ outcome = "exhausted"
                           THEN @ + 1 ELSE @])
                 /\ UNCHANGED dirExists
    /\ UNCHANGED <<pvars, inJobs, now, ticks, to_remove, hist>>

\* after the loop: the final concatenation, the archive in per-chapter mode,
\* the output fields, the removal of the silence file
W_Assemble(me) ==
    LET out == IF me.single_file THEN FinalFile ELSE ChapterFile(me.chapter_idx)
        closes == me.single_file \/ (me.parts # <<>> /\ me.chapter_idx >= 0)
        mp3s == IF closes THEN Append(me.mp3_files, out) ELSE me.mp3_files
        log == IF closes THEN Append(me.concats, [out |-> out, parts |-> me.parts])
               ELSE me.concats
    IN
    /\ me.pc = "loop"
    /\ me.i = Len(me.plan)
    /\ \E fault \in BOOLEAN :
          IF fault \/ ~dirExists \/ (closes /\ ~ConcatOk(me.parts))
          THEN /\ ErrorExit(me, fault)
               /\ files' = IF dirExists /\ closes /\ ~fault THEN files \cup {out}
                           ELSE files
          ELSE /\ files' = (((IF closes THEN (files \cup {out}) \ Consumed(me.parts)
                              ELSE files)
                             \cup (IF me.single_file THEN {} ELSE {ZipFile}))
                            \ {SilenceFile})
               /\ job' = IF me.single_file
                         THEN [job EXCEPT !.output_files = <<FinalFile>>]
                         ELSE [job EXCEPT !.output_files = mp3s,
                                          !.output_zip = TRUE,
                                          !.podcast_ready = TRUE]
               /\ SetWorker(me, [me EXCEPT !.pc = "finish",
                                           !.mp3_files = IF me.single_file THEN @ ELSE mp3s,
                                           !.concats = log])
    /\ UNCHANGED <<pvars, inJobs, now, ticks, dirExists, to_remove, hist>>

\* the completion fields, job["status"] = "done", then
\* if job.get("notify_email"): _send_completion_email(job_id), which gives
\* up when jobs.get(job_id) finds no record
W_Finish(me) ==
    /\ me.pc = "finish"
    /\ job' = [job EXCEPT !.progress_current = job.progress_total,
                          !.completed_at = now,
                          !.last_poll = now,
                          !.failed_chunks = me.failed_chunks,
                          !.status = "done",
                          !.email_sent_at =
                              IF job.email_registered /\ inJobs THEN now ELSE @]
    /\ hist' = [hist EXCEPT !.emails =
                              IF job.email_registered /\ inJobs THEN @ + 1 ELSE @]
    /\ SetWorker(me, Ended("done"))
    /\ UNCHANGED <<pvars, inJobs, now, ticks, dirExists, files, to_remove>>

\* ------------------------------------------------------------------------
\* is_content_chapter (src/epub_to_tts.py)
\* ------------------------------------------------------------------------
\* A section text is a sequence of lines (joined by "\n").  A line is given
\* by what the function reads from it: its length and its number of words
\* after l.strip(), the verdicts of the regular expressions on it (page_ref:
\* it ends with a number of one to four digits or holds a dot leader before
\* a digit; year: it holds a year 19xx or 20xx; sep: it holds [,;] followed
\* by white space), and the phrase it starts with (signal, a sequence of
\* characters; <<>> when the line holds no colophon phrase).
Line(len, words, page_ref, year, sep, signal) ==
    [len |-> len, words |-> words, page_ref |-> page_ref,
     year |-> year, sep |-> sep, signal |-> signal]

BlankLine == Line(0, 0, FALSE, FALSE, FALSE, <<>>)

\* text.strip(): the blank lines at both ends go
RECURSIVE LStripLines(_)
LStripLines(text) ==
    IF text # <<>> /\ Head(text).len = 0 THEN LStripLines(Tail(text)) ELSE text

RECURSIVE RStripLines(_)
RStripLines(text) ==
    IF text # <<>> /\ text[Len(text)].len = 0
    THEN RStripLines(SubSeq(text, 1, Len(text) - 1)) ELSE text

StripLines(text) == RStripLines(LStripLines(text))

RECURSIVE SumLineLen(_)
SumLineLen(lines) == IF lines = <<>> THEN 0 ELSE Head(lines).len + SumLineLen(Tail(lines))

RECURSIVE SumLineWords(_)
SumLineWords(lines) ==
    IF lines = <<>> THEN 0 ELSE Head(lines).words + SumLineWords(Tail(lines))

\* len(clean): the lines and the newlines between them
CleanLen(clean) == IF clean = <<>> THEN 0 ELSE SumLineLen(clean) + Len(clean) - 1

\* the position in clean of the first character of line k
LineOffset(clean, k) == SumLineLen(SubSeq(clean, 1, k - 1)) + (k - 1)

\* str.lower() on the letters the titles and phrases use
UpperChars ==
    <<"A", "B", "C", "D", "E", "F", "G", "H", "I", "J", "K", "L", "M", "N",
      "O", "P", "Q", "R", "S", "T", "U", "V", "W", "X", "Y", "Z", "É">>

LowerChars ==
    <<"a", "b", "c", "d", "e", "f", "g", "h", "i", "j", "k", "l", "m", "n",
      "o", "p", "q", "r", "s", "t", "u", "v", "w", "x", "y", "z", "é">>

LowerChar(c) ==
    IF \E i \in 1..Len(UpperChars) : UpperChars[i] = c
    THEN LowerChars[CHOOSE i \in 1..Len(UpperChars) : UpperChars[i] = c]
    ELSE c

Lower(str) == [i \in 1..Len(str) |-> LowerChar(str[i])]

skip_titles ==
    {
      <<"i", "n", "d", "i", "c", "e">>,
      <<"i", "n", "d", "i", "c", "e", " ", "g", "e", "n", "e", "r", "a", "l", "e">>,
      <<"i", "n", "d", "i", "c", "e", " ", "d", "e", "i", " ", "c", "o", "n", "t", "e", "n", "u", "t", "i">>,
      <<"i", "n", "d", "i", "c", "e", " ", "a", "n", "a", "l", "i", "t", "i", "c", "o">>,
      <<"s", "o", "m", "m", "a", "r", "i", "o">>,
      <<"t", "a", "b", "l", "e", " ", "o", "f", " ", "c", "o", "n", "t", "e", "n", "t", "s">>,
      <<"c", "o", "n", "t", "e", "n", "t", "s">>,
      <<"t", "o", "c">>,
      <<"t", "a", "b", "l", "e", " ", "d", "e", "s", " ", "m", "a", "t", "i", "è", "r", "e", "s">>,
      <<"s", "o", "m", "m", "a", "i", "r", "e">>,
      <<"í", "n", "d", "i", "c", "e">>,
      <<"í", "n", "d", "i", "c", "e", " ", "g", "e", "n", "e", "r", "a", "l">>,
      <<"i", "n", "h", "a", "l", "t", "s", "v", "e", "r", "z", "e", "i", "c", "h", "n", "i", "s">>,
      <<"i", "n", "h", "a", "l", "t">>,
      <<"c", "o", "p", "y", "r", "i", "g", "h", "t">>,
      <<"c", "o", "l", "o", "p", "h", "o", "n">>,
      <<"n", "o", "t", "e", " ", "l", "e", "g", "a", "l", "i">>,
      <<"i", "n", "f", "o", "r", "m", "a", "z", "i", "o", "n", "i", " ", "l", "e", "g", "a", "l", "i">>,
      <<"a", "v", "v", "i", "s", "o", " ", "l", "e", "g", "a", "l", "e">>,
      <<"l", "e", "g", "a", "l", " ", "n", "o", "t", "i", "c", "e">>,
      <<"a", "l", "l", " ", "r", "i", "g", "h", "t", "s", " ", "r", "e", "s", "e", "r", "v", "e", "d">>,
      <<"c", "o", "p", "y", "r", "i", "g", "h", "t", " ", "n", "o", "t", "i", "c", "e">>,
      <<"m", "e", "n", "t", "i", "o", "n", "s", " ", "l", "é", "g", "a", "l", "e", "s">>,
      <<"a", "v", "i", "s", "o", " ", "l", "e", "g", "a", "l">>,
      <<"i", "m", "p", "r", "e", "s", "s", "u", "m">>,
      <<"f", "r", "o", "n", "t", "e", "s", "p", "i", "z", "i", "o">>,
      <<"t", "i", "t", "l", "e", " ", "p", "a", "g", "e">>,
      <<"c", "o", "v", "e", "r">>,
      <<"c", "o", "p", "e", "r", "t", "i", "n", "a">>,
      <<"h", "a", "l", "f", " ", "t", "i", "t", "l", "e">>,
      <<"h", "a", "l", "f", "t", "i", "t", "l", "e">>,
      <<"p", "a", "g", "e", " ", "d", "e", " ", "t", "i", "t", "r", "e">>,
      <<"d", "e", "d", "i", "c", "a">>,
      <<"d", "e", "d", "i", "c", "a", "t", "i", "o", "n">>,
      <<"d", "é", "d", "i", "c", "a", "c", "e">>,
      <<"d", "e", "d", "i", "c", "a", "t", "o", "r", "i", "a">>,
      <<"e", "p", "i", "g", "r", "a", "f", "e">>,
      <<"e", "p", "i", "g", "r", "a", "p", "h">>,
      <<"é", "p", "i", "g", "r", "a", "p", "h", "e">>,
      <<"b", "i", "b", "l", "i", "o", "g", "r", "a", "f", "i", "a">>,
      <<"b", "i", "b", "l", "i", "o", "g", "r", "a", "p", "h", "y">>,
      <<"b", "i", "b", "l", "i", "o", "g", "r", "a", "p", "h", "i", "e">>,
      <<"b", "i", "b", "l", "i", "o", "g", "r", "a", "f", "í", "a">>,
      <<"r", "i", "f", "e", "r", "i", "m", "e", "n", "t", "i", " ", "b", "i", "b", "l", "i", "o", "g", "r", "a", "f", "i", "c", "i">>,
      <<"r", "i", "f", "e", "r", "i", "m", "e", "n", "t", "i">>,
      <<"r", "e", "f", "e", "r", "e", "n", "c", "e", "s">>,
      <<"o", "p", "e", "r", "e", " ", "c", "i", "t", "a", "t", "e">>,
      <<"w", "o", "r", "k", "s", " ", "c", "i", "t", "e", "d">>,
      <<"f", "o", "n", "t", "i">>,
      <<"s", "o", "u", "r", "c", "e", "s">>,
      <<"l", "e", "t", "t", "u", "r", "e", " ", "c", "o", "n", "s", "i", "g", "l", "i", "a", "t", "e">>,
      <<"f", "u", "r", "t", "h", "e", "r", " ", "r", "e", "a", "d", "i", "n", "g">>,
      <<"s", "u", "g", "g", "e", "s", "t", "e", "d", " ", "r", "e", "a", "d", "i", "n", "g">>,
      <<"p", "e", "r", " ", "a", "p", "p", "r", "o", "f", "o", "n", "d", "i", "r", "e">>,
      <<"l", "e", "c", "t", "u", "r", "e", "s", " ", "c", "o", "m", "p", "l", "é", "m", "e", "n", "t", "a", "i", "r", "e", "s">>,
      <<"n", "o", "t", "e">>,
      <<"n", "o", "t", "e", "s">>,
      <<"n", "o", "t", "e", " ", "a", "l", " ", "t", "e", "s", "t", "o">>,
      <<"n", "o", "t", "e", " ", "a", " ", "p", "i", "è", " ", "d", "i", " ", "p", "a", "g", "i", "n", "a">>,
      <<"n", "o", "t", "e", " ", "f", "i", "n", "a", "l", "i">>,
      <<"e", "n", "d", "n", "o", "t", "e", "s">>,
      <<"f", "o", "o", "t", "n", "o", "t", "e", "s">>,
      <<"a", "n", "m", "e", "r", "k", "u", "n", "g", "e", "n">>,
      <<"n", "o", "t", "e", " ", "d", "e", "l", "l", "'", "a", "u", "t", "o", "r", "e">>,
      <<"n", "o", "t", "e", " ", "d", "e", "l", " ", "t", "r", "a", "d", "u", "t", "t", "o", "r", "e">>,
      <<"n", "o", "t", "e", " ", "d", "e", "l", " ", "c", "u", "r", "a", "t", "o", "r", "e">>,
      <<"n", "o", "t", "e", " ", "b", "i", "b", "l", "i", "o", "g", "r", "a", "f", "i", "c", "h", "e">>,
      <<"n", "o", "t", "e", " ", "c", "r", "i", "t", "i", "c", "h", "e">>,
      <<"g", "l", "o", "s", "s", "a", "r", "i", "o">>,
      <<"g", "l", "o", "s", "s", "a", "r", "y">>,
      <<"g", "l", "o", "s", "s", "a", "i", "r", "e">>,
      <<"g", "l", "o", "s", "a", "r", "i", "o">>,
      <<"g", "l", "o", "s", "s", "a", "r">>,
      <<"i", "n", "d", "i", "c", "e", " ", "d", "e", "i", " ", "n", "o", "m", "i">>,
      <<"i", "n", "d", "i", "c", "e", " ", "d", "e", "i", " ", "l", "u", "o", "g", "h", "i">>,
      <<"i", "n", "d", "i", "c", "e", " ", "d", "e", "l", "l", "e", " ", "o", "p", "e", "r", "e">>,
      <<"i", "n", "d", "i", "c", "e", " ", "t", "e", "m", "a", "t", "i", "c", "o">>,
      <<"i", "n", "d", "e", "x">>,
      <<"n", "a", "m", "e", " ", "i", "n", "d", "e", "x">>,
      <<"s", "u", "b", "j", "e", "c", "t", " ", "i", "n", "d", "e", "x">>,
      <<"w", "o", "r", "d", " ", "i", "n", "d", "e", "x">>,
      <<"a", "p", "p", "e", "n", "d", "i", "c", "e">>,
      <<"a", "p", "p", "e", "n", "d", "i", "x">>,
      <<"a", "n", "n", "e", "x", "e">>,
      <<"a", "p", "é", "n", "d", "i", "c", "e">>,
      <<"a", "n", "h", "a", "n", "g">>,
      <<"a", "b", "o", "u", "t", " ", "t", "h", "e", " ", "a", "u", "t", "h", "o", "r">>,
      <<"s", "u", "l", "l", "'", "a", "u", "t", "o", "r", "e">>,
      <<"l", "'", "a", "u", "t", "o", "r", "e">>,
      <<"l", "'", "a", "u", "t", "r", "i", "c", "e">>,
      <<"b", "i", "o", "g", "r", "a", "p", "h", "y">>,
      <<"b", "i", "o", "g", "r", "a", "f", "i", "a">>,
      <<"b", "i", "o", "g", "r", "a", "p", "h", "i", "e">>,
      <<"a", "b", "o", "u", "t", " ", "t", "h", "e", " ", "t", "r", "a", "n", "s", "l", "a", "t", "o", "r">>,
      <<"n", "o", "t", "a", " ", "d", "e", "l", " ", "t", "r", "a", "d", "u", "t", "t", "o", "r", "e">>,
      <<"d", "e", "l", "l", "o", " ", "s", "t", "e", "s", "s", "o", " ", "a", "u", "t", "o", "r", "e">>,
      <<"a", "l", "s", "o", " ", "b", "y">>,
      <<"d", "u", " ", "m", "ê", "m", "e", " ", "a", "u", "t", "e", "u", "r">>,
      <<"a", "l", "t", "r", "e", " ", "o", "p", "e", "r", "e">>,
      <<"o", "t", "h", "e", "r", " ", "b", "o", "o", "k", "s">>,
      <<"r", "i", "n", "g", "r", "a", "z", "i", "a", "m", "e", "n", "t", "i">>,
      <<"a", "c", "k", "n", "o", "w", "l", "e", "d", "g", "e", "m", "e", "n", "t", "s">>,
      <<"a", "c", "k", "n", "o", "w", "l", "e", "d", "g", "m", "e", "n", "t", "s">>,
      <<"r", "e", "m", "e", "r", "c", "i", "e", "m", "e", "n", "t", "s">>,
      <<"a", "g", "r", "a", "d", "e", "c", "i", "m", "i", "e", "n", "t", "o", "s">>,
      <<"d", "a", "n", "k", "s", "a", "g", "u", "n", "g">>,
      <<"e", "r", "r", "a", "t", "a">>,
      <<"e", "r", "r", "a", "t", "a", " ", "c", "o", "r", "r", "i", "g", "e">>,
      <<"c", "r", "e", "d", "i", "t", "s">>,
      <<"c", "r", "e", "d", "i", "t", "i">>,
      <<"p", "h", "o", "t", "o", " ", "c", "r", "e", "d", "i", "t", "s">>,
      <<"i", "m", "a", "g", "e", " ", "c", "r", "e", "d", "i", "t", "s">>,
      <<"i", "l", "l", "u", "s", "t", "r", "a", "t", "i", "o", "n", " ", "c", "r", "e", "d", "i", "t", "s">> }

colophon_signals ==
    {
      <<"t", "u", "t", "t", "i", " ", "i", " ", "d", "i", "r", "i", "t", "t", "i">>,
      <<"a", "l", "l", " ", "r", "i", "g", "h", "t", "s", " ", "r", "e", "s", "e", "r", "v", "e", "d">>,
      <<"t", "o", "u", "s", " ", "d", "r", "o", "i", "t", "s">>,
      <<"p", "r", "i", "m", "a", " ", "e", "d", "i", "z", "i", "o", "n", "e">>,
      <<"f", "i", "r", "s", "t", " ", "p", "u", "b", "l", "i", "s", "h", "e", "d">>,
      <<"p", "r", "i", "n", "t", "e", "d", " ", "i", "n">>,
      <<"s", "t", "a", "m", "p", "a", "t", "o", " ", "i", "n">>,
      <<"f", "i", "n", "i", "t", "o", " ", "d", "i", " ", "s", "t", "a", "m", "p", "a", "r", "e">>,
      <<"t", "i", "p", "o", "g", "r", "a", "f", "i", "a">>,
      <<"i", "s", "b", "n">>,
      <<"©", " ">>,
      <<"p", "r", "o", "p", "r", "i", "e", "t">>,
      <<"v", "i", "e", "t", "a", "t", "a", " ", "l", "a", " ", "r", "i", "p", "r", "o", "d", "u", "z", "i", "o", "n", "e">> }

\* any(skip in title_lower for skip in skip_titles)
TitleIsSkipped(title) == \E skip \in skip_titles : Contains(Lower(title), skip)

\* 1. more than ten lines, over 70% of them shorter than 15 characters
ShortLinesHeuristic(non_empty) ==
    LET n_lines == Len(non_empty)
        short_lines == Len(SelectSeq(non_empty, LAMBDA l : l.len < 15))
    IN  n_lines > 10 /\ 10 * short_lines > 7 * n_lines

\* 2. more than five lines, over 40% of them page references
PageRefHeuristic(non_empty) ==
    LET n_lines == Len(non_empty)
        page_ref_lines == Len(SelectSeq(non_empty, LAMBDA l : l.page_ref))
    IN  n_lines > 5 /\ 10 * page_ref_lines > 4 * n_lines

\* 3. more than five lines, over 50% of them bibliographic entries
BibHeuristic(non_empty) ==
    LET n_lines == Len(non_empty)
        bib_patterns == Len(SelectSeq(non_empty,
                                LAMBDA l : l.year /\ l.sep /\ l.len > 40))
    IN  n_lines > 5 /\ 10 * bib_patterns > 5 * n_lines

\* 4. two or more colophon signals within clean[:500].lower()
ColophonHeuristic(clean) ==
    LET first_500 == {Lower(clean[k].signal) : k \in
                         {h \in 1..Len(clean) :
                             /\ clean[h].signal # <<>>
                             /\ LineOffset(clean, h) + Len(clean[h].signal) <= 500}}
    IN  Cardinality({sig \in colophon_signals :
                        \E phrase \in first_500 : Contains(phrase, sig)}) >= 2

\* one of the four content heuristics rejects the text
TriggersHeuristic(text) ==
    LET clean == StripLines(text)
        non_empty == SelectSeq(clean, LAMBDA l : l.len > 0)
    IN  /\ non_empty # <<>>
        /\ \/ ShortLinesHeuristic(non_empty)
           \/ PageRefHeuristic(non_empty)
           \/ BibHeuristic(non_empty)
           \/ ColophonHeuristic(clean)

\* is_content_chapter with the title compared to the keywords for equality
is_content_chapter_TitleEquals(text, title) ==
    LET clean == StripLines(text)
    IN  IF CleanLen(clean) < 100 THEN FALSE
        ELSE IF SumLineWords(clean) < 30 THEN FALSE
        ELSE IF Lower(title) \in skip_titles THEN FALSE
        ELSE ~TriggersHeuristic(text)

is_content_chapter(text, title) ==
    LET clean == StripLines(text)
    IN  IF CleanLen(clean) < 100 THEN FALSE
        ELSE IF SumLineWords(clean) < 30 THEN FALSE
        ELSE IF TitleIsSkipped(title) THEN FALSE
        ELSE ~TriggersHeuristic(text)

\* ------------------------------------------------------------------------
\* generate_chunk_mp3 (src/audiobook_app.py): the retry loop
\* ------------------------------------------------------------------------
\* provider[k]: the k-th call of the provider succeeds (it raises otherwise)
\* st = [provider_texts: the texts sent, sleeps: the waits, written, value]
\* RetryLoop sleeping after the last failed attempt as well
RECURSIVE RetryLoop_SleepsAlways(_, _, _, _)
RetryLoop_SleepsAlways(clean, provider, attempt, st) ==
    IF attempt >= max_retries
    THEN [st EXCEPT !.written = "silence", !.value = "False"]
    ELSE LET sent == [st EXCEPT !.provider_texts = Append(@, clean)]
         IN  IF provider[attempt + 1]
             THEN [sent EXCEPT !.written = "audio", !.value = "None"]
             ELSE RetryLoop_SleepsAlways(clean, provider, attempt + 1,
                      [sent EXCEPT !.sleeps = Append(@, 2 ^ attempt)])

\* for attempt in range(max_retries): ... ; then the silent placeholder
RECURSIVE RetryLoop(_, _, _, _)
RetryLoop(clean, provider, attempt, st) ==
    IF attempt >= max_retries
    THEN [st EXCEPT !.written = "silence", !.value = "False"]
    ELSE LET sent == [st EXCEPT !.provider_texts = Append(@, clean)]
         IN  IF provider[attempt + 1]
             THEN [sent EXCEPT !.written = "audio", !.value = "None"]
             ELSE RetryLoop(clean, provider, attempt + 1,
                      IF attempt < max_retries - 1
                      THEN [sent EXCEPT !.sleeps = Append(@, 2 ^ attempt)]
                      ELSE sent)

\* output: the bytes of the file a call wrote; left: the other files it
\* left behind
NoRet ==
    [returned |-> FALSE, value |-> "", provider_texts |-> <<>>, sleeps |-> <<>>,
     written |-> "none", output |-> <<>>, left |-> {}]

\* generate_chunk_mp3 sending every text that is not blank before
\* sanitization
generate_chunk_mp3_OneCheck(text, provider) ==
    IF Strip(text) = <<>>
    THEN [NoRet EXCEPT !.returned = TRUE, !.written = "silence", !.value = "None"]
    ELSE RetryLoop(Sanitize(text), provider, 0, [NoRet EXCEPT !.returned = TRUE])

generate_chunk_mp3(text, provider) ==
    IF SkipsProvider(text)
    THEN [NoRet EXCEPT !.returned = TRUE, !.written = "silence", !.value = "None"]
    ELSE RetryLoop(Sanitize(text), provider, 0, [NoRet EXCEPT !.returned = TRUE])

\* ------------------------------------------------------------------------
\* _concatenate_mp3 (src/audiobook_app.py)
\* ------------------------------------------------------------------------
\* A part is the number of a file; disk[p] is the byte sequence of file p,
\* <<>> standing for a file that does not exist.  tool is what running
\* ffmpeg does: "ok" (exit status 0), "fails" (another exit status) or
\* "missing" (FileNotFoundError); writable: files can be created next to the
\* output.
PartExists(disk, p) == disk[p] # <<>>

\* the fallback: the bytes of the parts, in order, up to the first part
\* that cannot be opened
RECURSIVE CopyParts(_, _)
CopyParts(parts, disk) ==
    IF parts = <<>> \/ ~PartExists(disk, Head(parts)) THEN <<>>
    ELSE disk[Head(parts)] \o CopyParts(Tail(parts), disk)

\* _concatenate_mp3 giving up when the tool cannot be run
_concatenate_mp3_NoFallback(parts, disk, tool, writable) ==
    IF writable /\ tool = "ok"
    THEN [NoRet EXCEPT !.returned = TRUE, !.value = "None", !.written = "tool"]
    ELSE [NoRet EXCEPT !.returned = TRUE, !.value = "raised"]

_concatenate_mp3(parts, disk, tool, writable) ==
    LET list_left == IF writable /\ tool = "missing" THEN {"filelist"} ELSE {}
    IN  IF writable /\ tool = "ok"
        THEN [NoRet EXCEPT !.returned = TRUE, !.value = "None", !.written = "tool"]
        ELSE IF ~writable
        THEN [NoRet EXCEPT !.returned = TRUE, !.value = "raised"]
        ELSE [NoRet EXCEPT
                 !.returned = TRUE,
                 !.value = IF \A k \in 1..Len(parts) : PartExists(disk, parts[k])
                           THEN "None" ELSE "raised",
                 !.written = "bytes",
                 !.output = CopyParts(parts, disk),
                 !.left = list_left]

\* ------------------------------------------------------------------------
\* _build_toc_map (src/epub_to_tts.py)
\* ------------------------------------------------------------------------
\* A TOC item is [href: the number of the fragment it points into (the part
\* of the href before "#"), title, children: the items nested under it].
\* The map is a tuple indexed by fragment, "" for a fragment without entry.
\* walk_toc: the section, then its children, then the items after it
RECURSIVE walk_toc(_, _)
walk_toc(items, toc_map) ==
    IF items = <<>> THEN toc_map
    ELSE LET item == Head(items)
             own == [toc_map EXCEPT ![item.href] = item.title]
         IN  walk_toc(Tail(items), walk_toc(item.children, own))

_build_toc_map(toc) == walk_toc(toc, [f \in 1..MaxFragments |-> ""])

\* ------------------------------------------------------------------------
\* clean_text_for_tts, step 3: the noise patterns applied to each line
\* (src/epub_to_tts.py)
\* ------------------------------------------------------------------------
\* A line is a sequence of tokens: "w" a word, " " a blank, "[1]" a note
\* reference, "http://x" the shortest URL.  A pattern is [head: the token
\* its match starts with, greedy: whether the match goes on over the
\* non-blank tokens that follow (the \S+ of the URL pattern), replacement].
\* Step 2b has replaced every "|" by a blank before the lines are split.
NOISE_PATTERNS ==
    << [head |-> "[1]", greedy |-> FALSE, replacement |-> <<>>],
       [head |-> "http://x", greedy |-> TRUE, replacement |-> <<>>],
       [head |-> "|", greedy |-> FALSE, replacement |-> <<" ">>] >>

RECURSIVE NonBlankRun(_, _)
NonBlankRun(line, i) ==
    IF i > Len(line) \/ line[i] = " " THEN 0 ELSE 1 + NonBlankRun(line, i + 1)

\* the number of tokens of the match of the pattern that starts at i, 0 if none
MatchLen(pattern, line, i) ==
    IF i > Len(line) \/ line[i] # pattern.head THEN 0
    ELSE IF pattern.greedy THEN 1 + NonBlankRun(line, i + 1) ELSE 1

\* re.match: a match that starts at the first character of the line
re_match(pattern, line) == MatchLen(pattern, line, 1) > 0

RECURSIVE re_sub_from(_, _, _)
re_sub_from(pattern, line, i) ==
    IF i > Len(line) THEN <<>>
    ELSE LET n == MatchLen(pattern, line, i)
         IN  IF n > 0 THEN pattern.replacement \o re_sub_from(pattern, line, i + n)
             ELSE <<line[i]>> \o re_sub_from(pattern, line, i + 1)

re_sub(pattern, line) == re_sub_from(pattern, line, 1)

\* the loop over the patterns for one line, from pattern k on
RECURSIVE PatternLoop(_, _)
PatternLoop(line, k) ==
    IF k > Len(NOISE_PATTERNS) THEN [skip |-> FALSE, line |-> line]
    ELSE LET pattern == NOISE_PATTERNS[k]
         IN  IF re_match(pattern, line)
             THEN IF pattern.replacement # <<>>
                  THEN [skip |-> FALSE, line |-> pattern.replacement]
                  ELSE [skip |-> TRUE, line |-> line]
             ELSE PatternLoop(re_sub(pattern, line), k + 1)

\* cleaned_lines
RECURSIVE NoisePass(_)
NoisePass(lines) ==
    IF lines = <<>> THEN <<>>
    ELSE LET r == PatternLoop(Head(lines), 1)
         IN  (IF r.skip THEN <<>> ELSE <<r.line>>) \o NoisePass(Tail(lines))

\* ------------------------------------------------------------------------
\* Calls of one function: the arguments and the actions applying it
\* ------------------------------------------------------------------------
RECURSIVE Repeat(_, _)
Repeat(x, n) == IF n = 0 THEN <<>> ELSE <<x>> \o Repeat(x, n - 1)

SignalIsbn == <<"I", "S", "B", "N">>
SignalPrinted == <<"p", "r", "i", "n", "t", "e", "d", " ", "i", "n">>

LineShapes ==
    { BlankLine,
      Line(13, 7, FALSE, FALSE, FALSE, <<>>),
      Line(60, 10, FALSE, FALSE, FALSE, <<>>),
      Line(300, 50, FALSE, FALSE, FALSE, <<>>),
      Line(30, 6, TRUE, FALSE, FALSE, <<>>),
      Line(50, 8, FALSE, TRUE, TRUE, <<>>),
      Line(40, 7, FALSE, TRUE, TRUE, <<>>),
      Line(60, 10, FALSE, FALSE, FALSE, SignalIsbn),
      Line(60, 10, FALSE, FALSE, FALSE, SignalPrinted) }

\* single lines at the two thresholds
ThresholdLines ==
    { Line(len, words, FALSE, FALSE, FALSE, <<>>) : len \in {99, 100}, words \in {29, 30} }

\* texts of up to three groups of equal lines, the last group being one
\* line with a colophon phrase, or none
ContentTexts ==
    { Repeat(a, n) \o Repeat(b, m) \o Repeat(c, k) :
        a \in LineShapes, b \in LineShapes,
        c \in {l \in LineShapes : l.signal # <<>>},
        n \in 0..MaxRepeat, m \in 0..MaxRepeat, k \in 0..1 }
    \cup { <<l>> : l \in ThresholdLines }

ChapterOne == <<"C", "h", "a", "p", "t", "e", "r", " ", "1">>

Titles ==
    { ChapterOne,
      <<>>,
      <<"B", "i", "b", "l", "i", "o", "g", "r", "a", "p", "h", "y">>,
      <<"I", "N", "D", "E", "X">>,
      <<"É", "p", "i", "g", "r", "a", "p", "h", "e">>,
      <<"T", "h", "e", " ", "N", "o", "t", "e", "b", "o", "o", "k">>,
      <<"P", "r", "o", "l", "o", "g", "u", "e">> }

\* texts for the calls with the other titles: too short, and long enough
\* with and without a heuristic firing
TitleProbeTexts ==
    { <<Line(60, 10, FALSE, FALSE, FALSE, <<>>)>>,
      Repeat(Line(60, 10, FALSE, FALSE, FALSE, <<>>), 3),
      Repeat(Line(13, 7, FALSE, FALSE, FALSE, <<>>), 11) }

\* text: the tokens of a chunk; lines: the lines of a section text
\* parts, disk, tool, writable: the arguments and the environment of
\* _concatenate_mp3; toc: book.toc for _build_toc_map
NoCall ==
    [fn |-> "none", text |-> <<>>, lines |-> <<>>, title |-> <<>>, provider |-> <<>>,
     parts |-> <<>>, disk |-> <<>>, tool |-> "", writable |-> FALSE, toc |-> <<>>,
     noisy |-> <<>>]

ContentCalls ==
    { [NoCall EXCEPT !.fn = "is_content_chapter", !.lines = t, !.title = ChapterOne] :
        t \in ContentTexts }
    \cup { [NoCall EXCEPT !.fn = "is_content_chapter", !.lines = t, !.title = ti] :
             t \in TitleProbeTexts, ti \in Titles }

ChunkAlphabet == {"a", " ", "\n", "z"}

ChunkCalls ==
    { [NoCall EXCEPT !.fn = "generate_chunk_mp3", !.text = t, !.provider = p] :
        t \in TextsUpTo(ChunkAlphabet, MaxTextLen), p \in [1..max_retries -> BOOLEAN] }

\* the files of a working directory: each missing, or holding one of two
\* byte sequences
Disks == [1..MaxParts -> {<<>>, <<"x">>, <<"y", "z">>}]

\* the tool exits with status 0 only when it could read every part and
\* write the output
ConcatCalls ==
    { c \in { [NoCall EXCEPT !.fn = "_concatenate_mp3", !.parts = ps, !.disk = d,
                              !.tool = t, !.writable = w] :
                 ps \in UNION {[1..n -> 1..MaxParts] : n \in 0..MaxParts},
                 d \in Disks, t \in {"ok", "fails", "missing"}, w \in BOOLEAN } :
        c.tool = "ok" =>
            /\ c.writable
            /\ \A k \in 1..Len(c.parts) : PartExists(c.disk, c.parts[k]) }

TocTitles == {"One", "Two", "Three"}

TocLeaves ==
    { [href |-> h, title |-> t, children |-> <<>>] : h \in 1..MaxFragments, t \in TocTitles }

\* an entry, alone or with one entry nested under it
TocItems ==
    TocLeaves
    \cup { [href |-> h, title |-> t, children |-> <<c>>] :
             h \in 1..MaxFragments, t \in TocTitles, c \in TocLeaves }

TocCalls ==
    { [NoCall EXCEPT !.fn = "_build_toc_map", !.toc = toc] :
        toc \in UNION {[1..n -> TocItems] : n \in 0..MaxTocItems} }

NoiseAlphabet == {"w", " ", "[1]", "http://x"}

NoisyLines == UNION {[1..n -> NoiseAlphabet] : n \in 0..MaxLineTokens}

\* one line, or a line followed by a second one
NoiseCalls ==
    { [NoCall EXCEPT !.fn = "clean_text_for_tts", !.noisy = <<l>>] : l \in NoisyLines }
    \cup { [NoCall EXCEPT !.fn = "clean_text_for_tts", !.noisy = <<l, m>>] :
             l \in NoisyLines, m \in {<<"w">>, <<"[1]">>, <<"w", "[1]">>} }

FnIdle == call = NoCall /\ ret = NoRet

FnInit ==
    /\ call \in ContentCalls \cup ChunkCalls \cup ConcatCalls \cup TocCalls
                \cup NoiseCalls
    /\ ret = NoRet

Call_is_content_chapter ==
    /\ call.fn = "is_content_chapter"
    /\ ~ret.returned
    /\ ret' = [NoRet EXCEPT !.returned = TRUE,
                            !.value = IF is_content_chapter(call.lines, call.title)
                                      THEN "True" ELSE "False"]
    /\ UNCHANGED call

Call_generate_chunk_mp3 ==
    /\ call.fn = "generate_chunk_mp3"
    /\ ~ret.returned
    /\ ret' = generate_chunk_mp3(call.text, call.provider)
    /\ UNCHANGED call

Call__build_toc_map ==
    /\ call.fn = "_build_toc_map"
    /\ ~ret.returned
    /\ ret' = [NoRet EXCEPT !.returned = TRUE, !.output = _build_toc_map(call.toc)]
    /\ UNCHANGED call

\* ret.output is cleaned_lines, the lines kept by step 3
Call_clean_text_for_tts ==
    /\ call.fn = "clean_text_for_tts"
    /\ ~ret.returned
    /\ ret' = [NoRet EXCEPT !.returned = TRUE, !.output = NoisePass(call.noisy)]
    /\ UNCHANGED call

Call__concatenate_mp3 ==
    /\ call.fn = "_concatenate_mp3"
    /\ ~ret.returned
    /\ ret' = _concatenate_mp3(call.parts, call.disk, call.tool, call.writable)
    /\ UNCHANGED call

\* ------------------------------------------------------------------------
\* The specifications
\* ------------------------------------------------------------------------
Init == PlannerIdle /\ JobIdle /\ FnIdle

Next ==
    \/ (\E d \in Uploads : api_analyze(d)) /\ UNCHANGED fvars
    \/ (\E single_file \in BOOLEAN, selected_chapters \in Selections :
          api_generate(single_file, selected_chapters)) /\ UNCHANGED fvars
    \/ (\E force \in BOOLEAN : api_cancel(force)) /\ UNCHANGED fvars
    \/ api_heartbeat /\ UNCHANGED fvars
    \/ api_register_email /\ UNCHANGED fvars
    \/ (\E d \in TickSteps : Tick(d)) /\ UNCHANGED fvars
    \/ CleanupScan /\ UNCHANGED fvars
    \/ CleanupRemove /\ UNCHANGED fvars
    \/ (\E me \in Threads : W_Begin(me)) /\ UNCHANGED fvars
    \/ (\E me \in Threads : W_Reset(me)) /\ UNCHANGED fvars
    \/ (\E me \in Threads : W_Prepare(me)) /\ UNCHANGED fvars
    \/ (\E me \in Threads : W_Iterate(me)) /\ UNCHANGED fvars
    \/ (\E me \in Threads : W_Assemble(me)) /\ UNCHANGED fvars
    \/ (\E me \in Threads : W_Finish(me)) /\ UNCHANGED fvars

Spec == Init /\ [][Next]_vars

PlanInit == PlannerInit /\ JobIdle /\ FnIdle

PlanNext ==
    \/ SplitText /\ UNCHANGED <<jvars, fvars>>
    \/ AnalyzeTxt /\ UNCHANGED <<jvars, fvars>>
    \/ AnalyzeEpub /\ UNCHANGED <<jvars, fvars>>
    \/ SelectChapters /\ UNCHANGED <<jvars, fvars>>
    \/ PlanChunks /\ UNCHANGED <<jvars, fvars>>

PlanSpec == PlanInit /\ [][PlanNext]_vars

FnSpecInit == PlannerIdle /\ JobIdle /\ FnInit

FnNext ==
    \/ Call_is_content_chapter /\ UNCHANGED <<pvars, jvars>>
    \/ Call_generate_chunk_mp3 /\ UNCHANGED <<pvars, jvars>>
    \/ Call__concatenate_mp3 /\ UNCHANGED <<pvars, jvars>>
    \/ Call__build_toc_map /\ UNCHANGED <<pvars, jvars>>
    \/ Call_clean_text_for_tts /\ UNCHANGED <<pvars, jvars>>

FnSpec == FnSpecInit /\ [][FnNext]_vars

\* ------------------------------------------------------------------------
\* The job of one client that asks for one generation, then goes away
\* ------------------------------------------------------------------------
Terminal == job.status \in {"done", "error", "cancelled"}

Running == \E w \in Threads : w.pc \notin EndStates

\* A long time passes over a job that has ended: more than every retention
\* delay of the cleanup loop.  The client acts only before.
Elapse ==
    /\ inJobs
    /\ Terminal
    /\ ~Running
    /\ Tick(EMAIL_FILE_RETENTION_SEC + 1)

\* the response of api_generate, kept in ret until the next one
Respond(v) ==
    /\ ret' = [NoRet EXCEPT !.returned = TRUE, !.value = v]
    /\ UNCHANGED call

WorkerStep ==
    \E me \in Threads :
        \/ W_Begin(me)
        \/ W_Reset(me)
        \/ W_Prepare(me)
        \/ W_Iterate(me)
        \/ W_Assemble(me)
        \/ W_Finish(me)

LiveNext ==
    \/ ticks = 0 /\ (\E d \in Uploads : api_analyze(d)) /\ UNCHANGED fvars
    \/ ticks = 0 /\ workers = EmptyBag
         /\ (\E single_file \in BOOLEAN, selected_chapters \in Selections :
               api_generate(single_file, selected_chapters)) /\ Respond("started")
    \/ ticks = 0
         /\ \E single_file \in BOOLEAN, selected_chapters \in Selections :
               /\ api_generate_Rejected(single_file, selected_chapters)
               /\ Respond(GenerateError(single_file, selected_chapters))
    \/ ticks = 0 /\ (\E force \in BOOLEAN : api_cancel(force)) /\ UNCHANGED fvars
    \/ ticks = 0 /\ api_heartbeat /\ UNCHANGED fvars
    \/ ticks = 0 /\ api_register_email /\ UNCHANGED fvars
    \/ Elapse /\ UNCHANGED fvars
    \/ CleanupScan /\ UNCHANGED fvars
    \/ CleanupRemove /\ UNCHANGED fvars
    \/ WorkerStep /\ UNCHANGED fvars

\* Weak fairness of the worker thread: a running thread always has a step
\* to take (WorkerStep is enabled exactly when Running), so the condition
\* is written with Running in the place of ENABLED <<WorkerStep>>_vars.
WorkerFairness ==
    []<>(~Running) \/ []<><<WorkerStep /\ UNCHANGED fvars>>_vars

\* the cleanup thread and the worker thread are scheduled, and time passes
LiveSpec ==
    /\ Init
    /\ [][LiveNext]_vars
    /\ WF_vars(Elapse /\ UNCHANGED fvars)
    /\ WF_vars(CleanupScan /\ UNCHANGED fvars)
    /\ WF_vars(CleanupRemove /\ UNCHANGED fvars)
    /\ WorkerFairness

\* ========================================================================
\* Properties of the job (under Spec)
\* ========================================================================
\* the moves of the status the lifecycle allows
StatusOrder ==
    { <<"none", "analyzed">>, <<"analyzed", "generating">>,
      <<"generating", "done">>, <<"generating", "error">>,
      <<"generating", "cancelled">> }

\* C1: the status never regresses: it only moves analyzed -> generating ->
\* {done, error, cancelled}, and once done, error or cancelled it never
\* changes to another value
C1_StatusNeverRegresses ==
    [][job.status' = job.status \/ <<job.status, job.status'>> \in StatusOrder]_vars

\* C2: at most one run_generation thread is ever started for the job
C2_AtMostOneWorker == BagCardinality(workers) <= 1

\* C3: no execution leaves the job in status generating: once every thread
\* started for it has ended, the status is done, cancelled or error, and a
\* thread that ended on a fault has left the status error
C3_NeverStuckGenerating ==
    (workers # EmptyBag /\ \A w \in Threads : w.pc \in EndStates) =>
        job.status # "generating"

\* the parts of a concatenation other than the lead-in silence
AudioParts(parts) == SelectSeq(parts, LAMBDA f : f # SilenceFile)

\* the chunk files of the entries of chapter idx of plan p, in plan order
EntryFiles(p, idx) ==
    LET ks == SelectSeq([k \in 1..Len(p) |-> k], LAMBDA k : p[k].chapter_index = idx)
    IN  [j \in 1..Len(ks) |-> ChunkFile(ks[j] - 1)]

\* C4: within the job, plan entries are synthesized strictly in plan order,
\* one at a time (no two threads are in the loop over the plan together),
\* and what is handed to a concatenation is exactly one part per plan entry
\* in plan order: all entries in single-file mode, the chapter's own entries
\* in per-chapter mode
C4_PlanOrderOnePartPerEntry ==
    /\ \A w \in Threads :
          /\ w.calls = [k \in 1..w.i |-> k - 1]
          /\ \A c \in 1..Len(w.concats) :
                AudioParts(w.concats[c].parts) =
                    IF w.single_file
                    THEN [k \in 1..Len(w.plan) |-> ChunkFile(k - 1)]
                    ELSE EntryFiles(w.plan, w.concats[c].out[2])
    /\ \A w \in Threads :
          w.pc = "loop" =>
              /\ CopiesIn(w, workers) = 1
              /\ \A v \in Threads : v.pc = "loop" => v = w

\* the number of plan entries of p for which the provider is called
RECURSIVE ProviderCalls(_)
ProviderCalls(p) ==
    IF p = <<>> THEN 0
    ELSE (IF SkipsProvider(Head(p).text) THEN 0 ELSE 1) + ProviderCalls(Tail(p))

\* C5: when every provider call has raised and no cancellation was triggered,
\* the thread reaches the completion of the job with a failed-chunk count
\* equal to the number of plan entries
C5_AllCallsFailedCountsEveryEntry ==
    \A w \in Threads :
        (w.pc = "finish" /\ w.failed_chunks = ProviderCalls(w.plan)) =>
            w.failed_chunks = Len(w.plan)

\* C6: after a cancellation request accepted by api_cancel while the status
\* was generating, the job never ends in done
C6_AcceptedCancelNeverDone == hist.cancel_accepted => job.status # "done"

\* C7: whenever the status is cancelled, the job references no finished
\* artifact and its working directory, with every file in it, is gone
C7_CancelledLeavesNothing ==
    job.status = "cancelled" =>
        /\ job.output_files = <<>>
        /\ ~job.output_zip
        /\ ~job.podcast_ready
        /\ ~dirExists
        /\ files = {}

\* C13: starting generation, with any chapter selection, leaves the
\* BookInfo stored in the job as it was: its chapter list, its chapters and
\* its totals
C13_GenerateKeepsStoredInfo ==
    [][BagCardinality(workers') > BagCardinality(workers) => book' = book]_vars

\* C13 witness: a thread started with a filtered copy while the job still
\* holds the whole book
C13_Witness ==
    /\ inJobs
    /\ \E w \in Threads :
          /\ w.pc = "begin"
          /\ Len(w.info.chapters) < Len(book.chapters)
          /\ w.info.total_words < book.total_words

\* the chapter artifacts of plan p: one per distinct chapter index, in
\* plan order
ChapterFilesOf(p) ==
    LET firsts == SelectSeq([k \in 1..Len(p) |-> k],
                      LAMBDA k : k = 1 \/ p[k].chapter_index # p[k - 1].chapter_index)
    IN  [j \in 1..Len(firsts) |-> ChapterFile(p[firsts[j]].chapter_index)]

\* the files of the output directory, which make_archive packs
OutputDir(fs) == {f \in fs : f[1] \in {"chapter", "final"}}

\* thread w, in per-chapter mode, completes the step after the loop
Assembles(w) ==
    /\ w.pc = "loop"
    /\ w.i = Len(w.plan)
    /\ ~w.single_file
    /\ CopiesIn(w, workers') < CopiesIn(w, workers)
    /\ \E v \in BagToSet(workers') :
          v.pc = "finish" /\ CopiesIn(v, workers') > CopiesIn(v, workers)

\* C14: in per-chapter mode the job lists exactly one artifact per distinct
\* chapter index of the plan, in chapter order and named by the chapter
\* index, and the archive packs exactly those artifacts and no other file
C14_OneArtifactPerChapter ==
    [][\A w \in Threads :
          Assembles(w) =>
              /\ job'.output_files = ChapterFilesOf(w.plan)
              /\ OutputDir(files') = Range(job'.output_files)]_vars

\* C15: an upload that the parser rejects, or that yields no chapter, is
\* answered with an error, gets no job record, and no generation thread is
\* ever started for it
C15_RejectedUploadHasNoJob ==
    (doc # NoDoc /\ ~Parses(doc)) =>
        /\ hist.analyze_code = 400
        /\ ~inJobs
        /\ job = NoJob
        /\ workers = EmptyBag

C15_Witness ==
    /\ doc # NoDoc
    /\ doc.kind = "epub"
    /\ parse_epub(doc.spine).chapters = <<>>
    /\ hist.analyze_code = 400
    /\ now > 1

\* thread me is about to handle a plan entry and takes its step
IterateStep(me) ==
    /\ me.pc = "loop"
    /\ me.i < Len(me.plan)
    /\ CopiesIn(me, workers') < CopiesIn(me, workers)

\* the step ends a thread by the cancellation exit
EndsCancelled ==
    CopiesIn(Ended("cancelled"), workers') > CopiesIn(Ended("cancelled"), workers)

\* the step hands a plan entry to the provider
CallsProvider ==
    \E w \in BagToSet(workers') :
        /\ w.pc = "loop"
        /\ w.i >= 1
        /\ CopiesIn(w, workers') > CopiesIn(w, workers)
        /\ ~SkipsProvider(w.plan[w.i].text)

\* C18: before each plan entry the cancellation check fires exactly when the
\* cancelled flag is set, or no email is registered and more than 60 seconds
\* have passed since last_poll; when it fires the status becomes cancelled
\* and that entry is not sent to the provider, and once it has fired no
\* later entry of the job is sent to the provider
C18_CancellationCheck ==
    [][/\ \A me \in Threads :
             IterateStep(me) =>
                 /\ EndsCancelled <=>
                       \/ job.cancelled
                       \/ ~job.email_registered /\ now - job.last_poll > 60
                 /\ EndsCancelled => job'.status = "cancelled" /\ ~CallsProvider
       /\ (\E w \in Threads : w.pc = "cancelled") => ~CallsProvider]_vars

\* the parts of the first n entries of plan p with one lead-in silence in
\* front of the first chunk of every chapter
RECURSIVE WithLeadIns(_, _)
WithLeadIns(p, n) ==
    IF n = 0 THEN <<>>
    ELSE WithLeadIns(p, n - 1)
         \o (IF n = 1 \/ p[n].chapter_index # p[n - 1].chapter_index
             THEN <<SilenceFile>> ELSE <<>>)
         \o <<ChunkFile(n - 1)>>

\* the parts thread w has handed to concatenation or collected so far
PartsSoFar(w) ==
    Flatten([k \in 1..Len(w.concats) |-> w.concats[k].parts])
        \o (IF w.pc = "loop" THEN w.parts ELSE <<>>)

\* C21: in both modes the parts of a job are the chunk parts in plan order
\* with exactly one lead-in silence part immediately before the part of the
\* first chunk of every chapter, and none between two chunks of a chapter
C21_OneLeadInPerChapter ==
    \A w \in Threads :
        w.pc \in {"loop", "finish"} => PartsSoFar(w) = WithLeadIns(w.plan, w.i)

\* the step of the cleanup loop that removes the record and the directory
RemovesJob == inJobs /\ ~inJobs'

\* C26: the cleanup loop never removes the record or the working directory
\* of a job whose worker is running (status generating), whatever the
\* interleaving of the pass with api_generate and the worker's steps
C26_CleanupSparesRunningJob ==
    [][RemovesJob => job.status # "generating"]_vars

\* C28: while the job is generating, 0 <= progress_current <= progress_total
\* and 0 <= processed_chars <= total_chars, neither progress_current nor
\* processed_chars decreases, and when the status becomes done
\* progress_current = progress_total and processed_chars = total_chars
C28_ProgressBoundedAndMonotonic ==
    [][(inJobs /\ inJobs') =>
          /\ 0 <= job'.progress_current
          /\ job'.progress_current <= job'.progress_total
          /\ 0 <= job'.processed_chars
          /\ job'.processed_chars <= job'.total_chars
          /\ job'.progress_current >= job.progress_current
          /\ job'.processed_chars >= job.processed_chars
          /\ (job'.status = "done" =>
                 /\ job'.progress_current = job'.progress_total
                 /\ job'.processed_chars = job'.total_chars)]_vars

\* the step at which the status becomes done
BecomesDone == job.status # "done" /\ job'.status = "done"

\* C30: when an email notification was registered before the status becomes
\* done, reaching done attempts the completion email exactly once (a token
\* is issued, email_sent_at is recorded): one send at that step, and never
\* a second one
C30_CompletionEmailExactlyOnce ==
    [][/\ hist'.emails <= 1
       /\ (BecomesDone /\ inJobs /\ job.email_registered)
             => (hist'.emails = 1 /\ job'.email_sent_at = now)]_vars

\* ========================================================================
\* Properties of the planner (under PlanSpec)
\* ========================================================================
\* the stripped sentences of the paragraphs of text that are over the budget
LongSentences(text, max_chars) ==
    LET paras == Split(text, <<"\n">>)
    IN  UNION { IF LenC(Strip(paras[k])) > max_chars
                THEN {Strip(s) : s \in Range(Sentences(Strip(paras[k])))}
                ELSE {} : k \in 1..Len(paras) }

OneLongSentence(c) == LenC(c) > doc.budget /\ c \in LongSentences(doc.text, doc.budget)

\* the same, read on the paragraphs as they stand in the text, not stripped
OneLongRawSentence(c) ==
    LET paras == Split(doc.text, <<"\n">>)
    IN  /\ LenC(c) > doc.budget
        /\ \E k \in 1..Len(paras) : c \in Range(Sentences(paras[k]))

\* C8 as stated: every chunk returned by split_text_into_chunks has at most
\* max_chars characters, unless it is one single sentence of an over-budget
\* paragraph that is by itself longer than max_chars (the paragraph taken
\* stripped, as the code does, or as it stands in the text)
C8_ChunkWithinBudgetOrOneSentence ==
    pstep = "split" =>
        \A k \in 1..Len(chunks) :
            \/ LenC(chunks[k]) <= doc.budget
            \/ OneLongSentence(chunks[k])
            \/ OneLongRawSentence(chunks[k])

\* C8 amended: every chunk has at most max_chars characters, unless it is one
\* single over-budget sentence, or the text holds no character other than
\* whitespace, in which case the text is returned whole as the only chunk
C8_ChunkWithinBudgetOrOneSentenceOrBlank ==
    pstep = "split" =>
        \A k \in 1..Len(chunks) :
            \/ LenC(chunks[k]) <= doc.budget
            \/ OneLongSentence(chunks[k])
            \/ NoWs(doc.text) = <<>> /\ chunks = <<doc.text>>

\* C8 witness: a text split into several chunks, one within the budget and
\* one a single sentence over it
C8_Witness ==
    /\ pstep = "split"
    /\ Len(chunks) >= 2
    /\ \E k \in 1..Len(chunks) : OneLongSentence(chunks[k])
    /\ \E k \in 1..Len(chunks) : LenC(chunks[k]) <= doc.budget

\* the texts of the plan entries of chapter idx, concatenated in plan order
ChapterPlanText(p, idx) ==
    LET own == SelectSeq(p, LAMBDA e : e.chapter_index = idx)
    IN  Flatten([k \in 1..Len(own) |-> own[k].text])

\* C9 as stated: for every chapter, the texts of its plan entries concatenated
\* in chunk order reproduce, ignoring whitespace, the chapter's text (after
\* the title line that planning puts in front): no non-whitespace character
\* of the chapter text is dropped, duplicated or reordered
C9_PlanReproducesChapterText ==
    pstep = "planned" =>
        \A k \in 1..Len(book.chapters) :
            NoWs(ChapterPlanText(plan, book.chapters[k].index))
                = NoWs(book.chapters[k].title) \o <<".">> \o NoWs(book.chapters[k].text)

\* C9 amended: for every chapter, the texts of its plan entries concatenated
\* in chunk order reproduce, ignoring whitespace, the chapter title, a full
\* stop, and the chapter text with every round- or square-bracketed span
\* removed (innermost first, until none is left)
C9_PlanReproducesUnbracketedText ==
    pstep = "planned" =>
        \A k \in 1..Len(book.chapters) :
            NoWs(ChapterPlanText(plan, book.chapters[k].index))
                = NoWs(book.chapters[k].title) \o <<".">>
                      \o NoWs(RemoveBrackets(book.chapters[k].text))

\* C9 witness: a planned chapter of several chunks whose text held a
\* bracketed span
C9_Witness ==
    /\ pstep = "planned"
    /\ \E k \in 1..Len(book.chapters) :
          /\ RemoveBrackets(book.chapters[k].text) # book.chapters[k].text
          /\ Len(SelectSeq(plan, LAMBDA e : e.chapter_index = book.chapters[k].index)) >= 2

\* C10: in every plan, chapter_index is non-decreasing (so the entries of one
\* chapter are contiguous), and within a chapter chunk_index counts 0, 1, 2,
\* ... in order, with chunks_in_chapter the number of the chapter's entries
C10_PlanOrdering ==
    pstep = "planned" =>
        /\ \A i \in 1..Len(plan), j \in 1..Len(plan) :
              i < j => plan[i].chapter_index <= plan[j].chapter_index
        /\ \A i \in 1..Len(plan) :
              /\ plan[i].chunk_index =
                    Cardinality({h \in 1..(i - 1) :
                                    plan[h].chapter_index = plan[i].chapter_index})
              /\ plan[i].chunks_in_chapter =
                    Cardinality({h \in 1..Len(plan) :
                                    plan[h].chapter_index = plan[i].chapter_index})

\* C10 witness: the plan of a filtered book (chapter 1 left out) with two
\* chapters, one of them of several chunks
C10_Witness ==
    /\ pstep = "planned"
    /\ plan # <<>>
    /\ plan[1].chapter_index > 1
    /\ \E i \in 1..Len(plan) : plan[i].chapter_index # plan[1].chapter_index
    /\ \E i \in 1..Len(plan) : plan[i].chunks_in_chapter >= 2

\* C11: planning never produces zero output: split_text_into_chunks never
\* returns an empty list, and the plan holds at least one entry for every
\* chapter of the book, so it has at least as many entries as chapters
C11_PlanNeverEmpty ==
    /\ pstep = "split" => chunks # <<>>
    /\ pstep = "planned" =>
          /\ \A k \in 1..Len(book.chapters) :
                \E i \in 1..Len(plan) : plan[i].chapter_index = book.chapters[k].index
          /\ Len(plan) >= Len(book.chapters)

\* C11 witness: the plan of a book of several chapters, with more entries
\* than chapters
C11_Witness ==
    /\ pstep = "planned"
    /\ Len(book.chapters) >= 2
    /\ Len(plan) > Len(book.chapters)

\* the sections of the spine that pass the fragment filters and
\* is_content_chapter, in reading order
RECURSIVE AcceptedSections(_)
AcceptedSections(spine) ==
    IF spine = <<>> THEN <<>>
    ELSE (IF Head(spine).skip THEN <<>>
          ELSE SelectSeq(Head(spine).sections, LAMBDA sec : sec.content))
         \o AcceptedSections(Tail(spine))

\* C12: parse_epub gives the indices 1, 2, ..., n, in reading order, to
\* exactly the sections that pass is_content_chapter (a skipped fragment or a
\* rejected section consumes no index), and after chapter filtering the
\* indices are still unique and strictly increasing
C12_ChapterIndices ==
    /\ (pstep = "parsed" /\ doc.kind = "epub") =>
          /\ Len(book.chapters) = Len(AcceptedSections(doc.spine))
          /\ \A k \in 1..Len(book.chapters) :
                /\ book.chapters[k].index = k
                /\ book.chapters[k].title = AcceptedSections(doc.spine)[k].title
                /\ book.chapters[k].text = Strip(AcceptedSections(doc.spine)[k].text)
    /\ pstep \in {"parsed", "filtered", "planned"} =>
          \A i \in 1..Len(book.chapters), j \in 1..Len(book.chapters) :
              i < j => book.chapters[i].index < book.chapters[j].index

\* C12 witness: a parsed EPUB of several chapters whose first fragment was
\* skipped, or whose first section was rejected
C12_Witness ==
    /\ pstep = "parsed"
    /\ doc.kind = "epub"
    /\ Len(book.chapters) >= 2
    /\ doc.spine[1].skip \/ ~doc.spine[1].sections[1].content

\* the plan entries of chapter idx, in plan order
EntriesOf(p, idx) == SelectSeq(p, LAMBDA e : e.chapter_index = idx)

\* t begins with the title line of chapter ch
HasTitleLine(t, ch) ==
    /\ Len(t) >= Len(ch.title) + 1
    /\ SubSeq(t, 1, Len(ch.title) + 1) = ch.title \o <<".">>

\* a parsed book of three chapters of about 3000 characters each
ThreeLongChapters ==
    /\ Len(book.chapters) = 3
    /\ \A k \in 1..3 : /\ book.chapters[k].char_count >= 2400
                       /\ book.chapters[k].char_count <= 3700

\* the title line and the unbracketed text of ch fit the budget together
FitsOneChunk(ch) ==
    LenC(ch.title) + LenC(_strip_parenthetical(ch.text)) + 3 <= CHUNK_MAX_CHARS

C23_FilteredTotalsRecomputed ==
    pstep = "filtered" =>
        /\ book.total_words = SumWords(book.chapters)
        /\ book.total_chars = SumChars(book.chapters)

\* ========================================================================
\* Properties of the functions (under FnSpec)
\* ========================================================================
\* is_content_chapter has returned
ContentReturned == call.fn = "is_content_chapter" /\ ret.returned

\* the stripped text of the call is below one of the two size thresholds
TooShort == CleanLen(StripLines(call.lines)) < 100 \/ SumLineWords(StripLines(call.lines)) < 30

\* C17: is_content_chapter returns false whenever the stripped text has
\* fewer than 100 characters or fewer than 30 words, and whenever the
\* lower-cased title holds an entry of the keyword list (in particular when
\* it is one, as 'Bibliography'); it returns true for a title holding no
\* entry, such as 'Chapter 1', when the text has at least 100 characters and
\* 30 words and triggers none of the content heuristics
C17_ContentChapterVerdict ==
    ContentReturned =>
        /\ TooShort => ret.value = "False"
        /\ (\E kw \in skip_titles : Contains(Lower(call.title), kw)) => ret.value = "False"
        /\ (/\ ~TooShort
            /\ ~(\E kw \in skip_titles : Contains(Lower(call.title), kw))
            /\ ~TriggersHeuristic(call.lines)) => ret.value = "True"

\* C17 witness: 'Chapter 1' with a text of exactly 100 characters and 30
\* words, accepted
C17_Witness ==
    /\ ContentReturned
    /\ call.title = ChapterOne
    /\ CleanLen(StripLines(call.lines)) = 100
    /\ SumLineWords(StripLines(call.lines)) = 30
    /\ ret.value = "True"

\* generate_chunk_mp3 has returned
ChunkReturned == call.fn = "generate_chunk_mp3" /\ ret.returned

\* the provider raises on every one of its first max_retries calls
AllAttemptsRaise == \A k \in 1..max_retries : ~call.provider[k]

\* C19: for a chunk that is not blank after sanitization, generate_chunk_mp3
\* calls the provider at most 3 times and stops at the first call that
\* succeeds; it waits 1 s after the first failed attempt and 2 s after the
\* second, and does not wait after the third; it writes the silent
\* placeholder and returns False exactly when all 3 attempts raised, and
\* otherwise leaves the provider's audio and returns None
C19_RetryThenPlaceholder ==
    (ChunkReturned /\ Strip(Sanitize(call.text)) # <<>>) =>
        LET n == Len(ret.provider_texts)
            failed == Cardinality({k \in 1..n : ~call.provider[k]})
        IN  /\ n \in 1..3
            /\ \A k \in 1..(n - 1) : ~call.provider[k]
            /\ n < 3 => call.provider[n]
            /\ ret.sleeps = [k \in 1..(IF failed < 2 THEN failed ELSE 2) |-> 2 ^ (k - 1)]
            /\ (ret.written = "silence" /\ ret.value = "False") <=> AllAttemptsRaise
            /\ ~AllAttemptsRaise => (ret.written = "audio" /\ ret.value = "None")

\* C19 witness: three attempts raised; the waits were 1 s and 2 s and the
\* placeholder was written
C19_Witness ==
    /\ ChunkReturned
    /\ Len(ret.provider_texts) = 3
    /\ ret.sleeps = <<1, 2>>
    /\ ret.written = "silence"
    /\ ret.value = "False"

\* C20: the provider is never called with a text that is empty or all white
\* space, and for a chunk that is empty or all white space after
\* sanitization it is not called at all: the silent placeholder is written
\* in place of the audio
C20_BlankChunkSkipsProvider ==
    ChunkReturned =>
        /\ \A k \in 1..Len(ret.provider_texts) : Strip(ret.provider_texts[k]) # <<>>
        /\ Strip(Sanitize(call.text)) = <<>> =>
              /\ ret.provider_texts = <<>>
              /\ ret.sleeps = <<>>
              /\ ret.written = "silence"

\* C20 witness: a chunk of zero-width characters and white space, blank only
\* once sanitized, for which the provider would have succeeded
C20_Witness ==
    /\ ChunkReturned
    /\ Strip(call.text) # <<>>
    /\ Len(call.text) >= 3
    /\ Strip(Sanitize(call.text)) = <<>>
    /\ call.provider[1]
    /\ ret.provider_texts = <<>>
    /\ ret.written = "silence"

\* _concatenate_mp3 has returned
ConcatReturned == call.fn = "_concatenate_mp3" /\ ret.returned

\* the bytes of the parts of the call, in the given order
PartsBytes == Flatten([k \in 1..Len(call.parts) |-> call.disk[call.parts[k]]])

\* the fallback cannot complete: the output cannot be created or a part
\* cannot be read
FallbackFails ==
    \/ ~call.writable
    \/ \E k \in 1..Len(call.parts) : call.disk[call.parts[k]] = <<>>

\* C22: when the tool is missing or exits with a failure, _concatenate_mp3
\* writes the output itself, as the bytes of the parts in the given order;
\* it raises (the job's status then becomes error) only when the tool did
\* not succeed and this fallback fails as well
C22_ConcatFallsBackToBytes ==
    ConcatReturned =>
        /\ (call.tool \in {"missing", "fails"} /\ ~FallbackFails) =>
              /\ ret.value = "None"
              /\ ret.written = "bytes"
              /\ ret.output = PartsBytes
        /\ ret.value = "raised" <=> (call.tool # "ok" /\ FallbackFails)
        /\ call.tool = "ok" => ret.written = "tool"

\* C22 witness: the tool is missing and three parts, one of them used twice,
\* are copied in the given order
C22_Witness ==
    /\ ConcatReturned
    /\ call.tool = "missing"
    /\ Len(call.parts) = 3
    /\ call.parts[1] = call.parts[3]
    /\ call.parts[1] # call.parts[2]
    /\ call.disk[call.parts[1]] # call.disk[call.parts[2]]
    /\ ret.output = PartsBytes
    /\ ret.value = "None"

\* the entries of a TOC in flattened order: an item, the items nested under
\* it, then the items that follow it
RECURSIVE FlatToc(_)
FlatToc(items) ==
    IF items = <<>> THEN <<>>
    ELSE <<Head(items)>> \o FlatToc(Head(items).children) \o FlatToc(Tail(items))

\* the entries of the TOC of the call that point into fragment f
EntriesInto(f) == SelectSeq(FlatToc(call.toc), LAMBDA e : e.href = f)

\* C24: for a fragment referenced by several TOC entries, nested or flat,
\* the title in the fragment-to-title map is the title of the first of these
\* entries in flattened TOC order
C24_TitleOfFirstTocEntry ==
    (call.fn = "_build_toc_map" /\ ret.returned) =>
        \A f \in 1..MaxFragments :
            Len(EntriesInto(f)) >= 2 => ret.output[f] = EntriesInto(f)[1].title

\* a pattern that matches the line from its first to its last character
WholeLineNoise(line) ==
    \E k \in 1..Len(NOISE_PATTERNS) :
        line # <<>> /\ MatchLen(NOISE_PATTERNS[k], line, 1) = Len(line)

\* every match of every pattern substituted, the rest of the line kept
RECURSIVE SubstituteAll(_, _)
SubstituteAll(line, k) ==
    IF k > Len(NOISE_PATTERNS) THEN line
    ELSE SubstituteAll(re_sub(NOISE_PATTERNS[k], line), k + 1)

RECURSIVE KeptLines(_)
KeptLines(lines) ==
    IF lines = <<>> THEN <<>>
    ELSE (IF WholeLineNoise(Head(lines)) THEN <<>>
          ELSE <<SubstituteAll(Head(lines), 1)>>) \o KeptLines(Tail(lines))

\* C25: the noise pass drops a line only when a pattern matches the whole
\* line; when a pattern matches part of a line, also at its start, only the
\* matched span is removed and the rest of the line is kept
C25_PartialMatchKeepsLine ==
    (call.fn = "clean_text_for_tts" /\ ret.returned) =>
        ret.output = KeptLines(call.noisy)

\* ========================================================================
\* Properties of the job of one client (under LiveSpec)
\* ========================================================================
\* C27: every job that reaches a terminal status (done, error, cancelled) is
\* eventually removed by the cleanup loop, record and working directory,
\* when the loop keeps running, time passes and the client has stopped
\* polling, wherever the error occurred and whenever an email was registered
C27_TerminalJobEventuallyRemoved ==
    (inJobs /\ Terminal) ~> (~inJobs /\ ~dirExists)

\* the response of a call of api_generate arrives
Responds == ret' # ret

\* C29: api_generate called for an unknown job id, or for a job whose status
\* is generating, done, error or cancelled, returns an error, starts no
\* worker and leaves the job record unchanged
C29_GenerateRejectedChangesNothing ==
    [][(Responds /\ (~inJobs \/ job.status \in {"generating", "done", "error", "cancelled"}))
          => /\ ret'.value \in {"Session expired. Re-upload file.",
                                "Generation already running or completed."}
             /\ workers' = workers
             /\ job' = job
             /\ inJobs' = inJobs]_vars

\* a request rejected for a job that is in the table and has ended
C29_Witness ==
    /\ ret.value = "Generation already running or completed."
    /\ inJobs
    /\ Terminal

====
